---------------------------- MODULE Spec2Model ----------------------------
(***************************************************************************)
(* A model of the YOLO Lightning module of pl_bolts                        *)
(* (src/pl_bolts/models/detection/yolo/yolo_module.py): the inference      *)
(* post-processing of YOLO.process_detections, the batch validation of     *)
(* YOLO._validate_batch, the forward pass, the training, validation and    *)
(* test steps and YOLO.process_targets; and of the constructors and the    *)
(* forward methods of the networks of torch_networks.py.                   *)
(*                                                                         *)
(* Real numbers (probabilities, thresholds, overlaps) are exact rationals  *)
(* [num |-> n, den |-> d] with d > 0, compared by cross-multiplication.    *)
(* Box coordinates are integers (pixels).  Sequences are 1-based here      *)
(* where the tensors are 0-based; class labels keep the code's 0-based     *)
(* numbering.                                                              *)
(***************************************************************************)
EXTENDS Integers, Sequences, FiniteSets, TLC

VARIABLES
    confidence_threshold,   \* self.confidence_threshold
    nms_threshold,          \* self.nms_threshold
    detections_per_image,   \* self.detections_per_image
    pc,                     \* the call that completed last
    preds,                  \* the argument of the last process_detections call
    selected,               \* per image: boxes, scores, labels, idxs after line 307
    nms_keep,               \* per image: what batched_nms returned on line 309
    result,                 \* the list process_detections returned
    again,                  \* lines 309-313 run once more on each entry of result
    batch,                  \* the argument of the last _validate_batch call
    outcome,                \* what that call did: "ok" or the error it raised
    variant,                \* the class of self.network
    num_classes,            \* the network's constructor argument
    prior_shapes,           \* the network's constructor argument, None by default
    anchors_per_cell,       \* the local of the network's constructor
    out_channels,           \* the output channels of the head of each detection layer
    detect,                 \* the index groups given to detect3, detect4, detect5
    error,                  \* what the network's constructor raised
    input_images,           \* the images argument of the last forward call
    input_targets,          \* the targets argument of the last forward / process_targets call
    attrs,                  \* the losses and hits attributes of the detection layers
    network_out,            \* what self.network returned to the last forward call
    returned,               \* what the last forward call returned
    reference,              \* the detections of the first forward call
    network_calls,          \* how often the running handler has invoked the network
    logged,                 \* what self.log received from the running handler
    stage,                  \* the position of the running training/validation/test step
    kind,                   \* which step is running
    batch_idx,              \* the number of the batch of the running step
    val_map,                \* self._val_map: the batches it was updated with
    test_map,               \* self._test_map: the batches it was updated with
    processed,              \* what the last process_targets call returned
    optimizer_params,       \* self.optimizer_params
    named_parameters,       \* the names self.named_parameters() yields, in its order
    configured,             \* what the last configure_optimizers call returned
    layer_priors,           \* the prior shapes (width, height) assigned to a detection layer
    layer_targets,          \* the targets of one image given to that layer
    ious,                   \* aligned_iou of the targets' and the priors' dimensions
    matched,                \* per target, the anchors the matcher selected
    layer_out,              \* what the layer computed from the assignment
    darknet_args,           \* the arguments of the DarknetYOLO constructor
    matching                \* the matching algorithm of the layers of the DarknetNetwork

det_vars == <<preds, selected, nms_keep, result, again>>
cfg_vars == <<confidence_threshold, nms_threshold, detections_per_image>>
val_vars == <<batch, outcome>>
net_vars == <<variant, num_classes, prior_shapes, anchors_per_cell, out_channels, detect, error>>
fwd_vars == <<input_images, input_targets, attrs, network_out, returned, reference, network_calls, logged>>
step_vars == <<stage, kind, batch_idx, val_map, test_map>>
tgt_vars == <<processed>>
opt_vars == <<optimizer_params, named_parameters, configured>>
match_vars == <<layer_priors, layer_targets, ious, matched, layer_out>>
dark_vars == <<darknet_args, matching>>
\* the state of configure_optimizers, of a detection layer and of DarknetYOLO
rest_vars == <<opt_vars, match_vars, dark_vars>>
vars == <<cfg_vars, pc, det_vars, val_vars, net_vars, fwd_vars, step_vars, tgt_vars, rest_vars>>

\* an optional value: Python's None, or the value given
None == <<>>
Some(value) == <<value>>

\* no network has been constructed
NoNetwork ==
    /\ variant = "none"
    /\ num_classes = 0
    /\ prior_shapes = None
    /\ anchors_per_cell = 0
    /\ out_channels = <<>>
    /\ detect = <<>>
    /\ error = "none"

\* no forward pass has run
NoForward ==
    /\ input_images = None
    /\ input_targets = None
    /\ attrs = <<>>
    /\ network_out = None
    /\ returned = None
    /\ reference = None
    /\ network_calls = 0
    /\ logged = <<>>

\* no step has run
NoStep ==
    /\ stage = "idle"
    /\ kind = "none"
    /\ batch_idx = 0
    /\ val_map = <<>>
    /\ test_map = <<>>

\* process_targets has not been called
NoTargets == processed = None

\* configure_optimizers has not been called and its inputs are not modelled
NoOptimizer ==
    /\ optimizer_params = None
    /\ named_parameters = <<>>
    /\ configured = None

\* no detection layer is looked into
NoMatching ==
    /\ layer_priors = <<>>
    /\ layer_targets = <<>>
    /\ ious = None
    /\ matched = None
    /\ layer_out = None

\* no DarknetYOLO is constructed
NoDarknet ==
    /\ darknet_args = None
    /\ matching = "none"

NoRest == NoOptimizer /\ NoMatching /\ NoDarknet

---------------------------------------------------------------------------
(* Bounds of the model.                                                    *)

\* at most this many images in one batch
MaxImages == 2
\* at most this many predictors (rows) in one detection tensor, all images
\* together: the tensor is rectangular, every image has the same number
MaxPredictors == 3
\* detections_per_image is 1 or MaxDetections
MaxDetections == 3
\* an explicit prior_shapes list has at most this many entries
MaxPriors == 6
\* at most this many forward passes of one network
MaxCalls == 2
\* at most this many training, validation and test steps
MaxSteps == 2
\* at most this many ground-truth boxes in one list of targets
MaxTargets == 2

---------------------------------------------------------------------------
(* Rational arithmetic.                                                    *)

Rat(n, d) == [num |-> n, den |-> d]
RMul(a, b) == [num |-> a.num * b.num, den |-> a.den * b.den]
RGt(a, b) == a.num * b.den > b.num * a.den
RGe(a, b) == a.num * b.den >= b.num * a.den
REq(a, b) == a.num * b.den = b.num * a.den

Min(a, b) == IF a < b THEN a ELSE b
Max(a, b) == IF a > b THEN a ELSE b

Range(s) == {s[k] : k \in 1..Len(s)}

\* tensor[index]: the rows of `tensor` picked by the index sequence
Gather(tensor, index) == [k \in 1..Len(index) |-> tensor[index[k]]]

---------------------------------------------------------------------------
(* Box overlap, as torchvision's NMS measures it on corner-format boxes.   *)

BoxArea(b) == (b[3] - b[1]) * (b[4] - b[2])

Intersection(a, b) ==
    Max(0, Min(a[3], b[3]) - Max(a[1], b[1])) *
    Max(0, Min(a[4], b[4]) - Max(a[2], b[2]))

\* IoU(a, b) > threshold; a 0/0 overlap compares false, as NaN does
IoUAbove(a, b, threshold) ==
    LET inter == Intersection(a, b)
        union == BoxArea(a) + BoxArea(b) - inter
    IN  inter * threshold.den > threshold.num * union

---------------------------------------------------------------------------
(* torchvision.ops.batched_nms, called on line 309.  Each category is      *)
(* processed on its own: its boxes are visited in descending order of      *)
(* score, and a box is kept unless an already kept box of the category has *)
(* IoU above the threshold with it.  The kept indices come back in         *)
(* descending order of score.  torchvision leaves the order of boxes with  *)
(* the same score open, so the operator is the set of the possible         *)
(* returns.                                                                *)

\* the members of S with the highest score
Highest(S, scores) == {i \in S : \A j \in S : RGe(scores[i], scores[j])}

\* every enumeration of S in descending order of score
RECURSIVE DescendingOrders(_, _)
DescendingOrders(S, scores) ==
    IF S = {} THEN {<<>>}
    ELSE UNION {{<<m>> \o rest : rest \in DescendingOrders(S \ {m}, scores)} :
                m \in Highest(S, scores)}

\* the greedy pass over one category, `order` being its boxes still to visit
RECURSIVE GreedyKeep(_, _, _, _)
GreedyKeep(order, kept, boxes, iou_threshold) ==
    IF order = <<>> THEN kept
    ELSE LET i == Head(order)
             suppressed == \E j \in kept : IoUAbove(boxes[j], boxes[i], iou_threshold)
         IN  GreedyKeep(Tail(order), IF suppressed THEN kept ELSE kept \cup {i},
                        boxes, iou_threshold)

\* the sets of indices NMS can keep within the categories `cats`
RECURSIVE KeptSets(_, _, _, _, _)
KeptSets(cats, boxes, scores, labels, iou_threshold) ==
    IF cats = {} THEN {{}}
    ELSE LET c == CHOOSE c \in cats : TRUE
             members == {i \in 1..Len(labels) : labels[i] = c}
             ofCat == {GreedyKeep(o, {}, boxes, iou_threshold) :
                       o \in DescendingOrders(members, scores)}
         IN  {a \cup b : a \in ofCat,
                         b \in KeptSets(cats \ {c}, boxes, scores, labels, iou_threshold)}

batched_nms(boxes, scores, labels, iou_threshold) ==
    UNION {DescendingOrders(K, scores) :
           K \in KeptSets(Range(labels), boxes, scores, labels, iou_threshold)}

---------------------------------------------------------------------------
(* YOLO.process_detections, one image (the body of the loop, lines         *)
(* 298-314).  A row of image_preds is <<x1, y1, x2, y2, confidence,        *)
(* classprob_0, ..., classprob_{C-1}>>.                                    *)

\* mask.nonzero(): the <<row, column>> pairs at which a boolean matrix
\* holds, in row-major order; rows 1-based, columns 0-based
Nonzero(mask) ==
    LET rows == Len(mask)
        cols == IF rows = 0 THEN 0 ELSE Len(mask[1])
    IN  SelectSeq([k \in 1..(rows * cols) |-> <<((k - 1) \div cols) + 1, (k - 1) % cols>>],
                  LAMBDA pair : mask[pair[1]][pair[2] + 1])

\* line 298: boxes = image_preds[..., :4]
ImageBoxes(image_preds) ==
    [p \in 1..Len(image_preds) |-> SubSeq(image_preds[p], 1, 4)]

\* the mutant of ImageScores: the class probabilities alone
ImageScores_without_confidence(image_preds) ==
    [p \in 1..Len(image_preds) |-> SubSeq(image_preds[p], 6, Len(image_preds[p]))]

\* lines 299-301: scores = classprobs * confidences[:, None]
ImageScores(image_preds) ==
    LET n == Len(image_preds)
        confidences == [p \in 1..n |-> image_preds[p][5]]
        classprobs == [p \in 1..n |-> SubSeq(image_preds[p], 6, Len(image_preds[p]))]
    IN  [p \in 1..n |->
           [c \in 1..Len(classprobs[p]) |-> RMul(classprobs[p][c], confidences[p])]]

\* the mutant of HighScores: only the best class of a predictor is selected
HighScores_best_class_only(scores, threshold) ==
    Nonzero([p \in 1..Len(scores) |->
               [c \in 1..Len(scores[p]) |->
                  /\ RGt(scores[p][c], threshold)
                  /\ \A d \in 1..Len(scores[p]) :
                        \/ RGt(scores[p][c], scores[p][d])
                        \/ (REq(scores[p][c], scores[p][d]) /\ c <= d)]])

\* line 305: (scores > self.confidence_threshold).nonzero(), the sequence of
\* the <<idx, label>> pairs
HighScores(scores, threshold) ==
    Nonzero([p \in 1..Len(scores) |->
               [c \in 1..Len(scores[p]) |-> RGt(scores[p][c], threshold)]])

\* lines 298-307: the boxes, scores and labels given to batched_nms
SelectPredictions(image_preds, threshold) ==
    LET boxes == ImageBoxes(image_preds)
        scores == ImageScores(image_preds)
        found == HighScores(scores, threshold)
        idxs == [k \in 1..Len(found) |-> found[k][1]]
        labels == [k \in 1..Len(found) |-> found[k][2]]
    IN  [boxes |-> Gather(boxes, idxs),
         scores |-> [k \in 1..Len(found) |-> scores[idxs[k]][labels[k] + 1]],
         labels |-> labels,
         idxs |-> idxs]

\* the mutant of Suppress: torchvision's nms, which knows no categories
Suppress_all_categories_together(sel, iou_threshold) ==
    batched_nms(sel.boxes, sel.scores, [k \in 1..Len(sel.labels) |-> 0], iou_threshold)

\* a mutant of Suppress: idxs, the other half of line 305's result, is given
\* as the categories (a dictionary of result has no idxs: its labels are used)
Suppress_by_idxs(sel, iou_threshold) ==
    batched_nms(sel.boxes, sel.scores,
                IF "idxs" \in DOMAIN sel THEN sel.idxs ELSE sel.labels, iou_threshold)

\* line 309: keep = batched_nms(boxes, scores, labels, self.nms_threshold)
Suppress(sel, iou_threshold) ==
    batched_nms(sel.boxes, sel.scores, sel.labels, iou_threshold)

\* the mutant of Truncate: the last entries of keep instead of the first
Truncate_from_the_end(keep, limit) ==
    SubSeq(keep, Max(1, Len(keep) - limit + 1), Len(keep))

\* line 310: keep[: self.detections_per_image]
Truncate(keep, limit) == SubSeq(keep, 1, Min(limit, Len(keep)))

\* the indices of S in ascending order
RECURSIVE Ascending(_)
Ascending(S) ==
    IF S = {} THEN <<>>
    ELSE LET m == CHOOSE m \in S : \A x \in S : m <= x
         IN  <<m>> \o Ascending(S \ {m})

\* a mutant of Detections: keep is computed and never used
Detections_unfiltered(sel, keep, limit) ==
    LET kept == Truncate([k \in 1..Len(sel.labels) |-> k], limit)
    IN  [boxes |-> Gather(sel.boxes, kept),
         scores |-> Gather(sel.scores, kept),
         labels |-> Gather(sel.labels, kept)]

\* a mutant of Detections: the kept indices are put in index order
Detections_in_index_order(sel, keep, limit) ==
    LET kept == Ascending(Range(Truncate(keep, limit)))
    IN  [boxes |-> Gather(sel.boxes, kept),
         scores |-> Gather(sel.scores, kept),
         labels |-> Gather(sel.labels, kept)]

\* a mutant of Detections: the labels are cut to length, not picked by keep
Detections_labels_not_gathered(sel, keep, limit) ==
    LET kept == Truncate(keep, limit)
    IN  [boxes |-> Gather(sel.boxes, kept),
         scores |-> Gather(sel.scores, kept),
         labels |-> SubSeq(sel.labels, 1, Len(kept))]

\* lines 310-314: the dictionary built from what batched_nms returned
Detections(sel, keep, limit) ==
    LET kept == Truncate(keep, limit)
    IN  [boxes |-> Gather(sel.boxes, kept),
         scores |-> Gather(sel.scores, kept),
         labels |-> Gather(sel.labels, kept)]

\* the mutant of ResultList: an image without detections gets no dictionary
ResultList_without_empty(sels, keeps, limit) ==
    SelectSeq([i \in 1..Len(sels) |-> Detections(sels[i], keeps[i], limit)],
              LAMBDA d : Len(d.scores) > 0)

\* lines 295, 297, 314, 316: one dictionary per image, in the order of preds
ResultList(sels, keeps, limit) ==
    [i \in 1..Len(sels) |-> Detections(sels[i], keeps[i], limit)]

\* every way to pick one member of each set of the sequence `sets`
RECURSIVE Choices(_)
Choices(sets) ==
    IF sets = <<>> THEN {<<>>}
    ELSE {<<h>> \o t : h \in Head(sets), t \in Choices(Tail(sets))}

---------------------------------------------------------------------------
(* The inputs the model draws.                                             *)

\* three boxes in a row: the first two and the last two have IoU 1/2, the
\* first and the last have IoU 1/5
Boxes == {<<0, 0, 3, 2>>, <<1, 0, 4, 2>>, <<2, 0, 5, 2>>}
\* <<confidence, classprob_0, classprob_1>>: the scores of the two classes
\* are 8/25 and 2/5, 1/5 (the threshold itself) and 4/5, 4/25 and 4/25
Heads == {<<Rat(2, 5), Rat(4, 5), Rat(5, 5)>>,
          <<Rat(5, 5), Rat(1, 5), Rat(4, 5)>>,
          <<Rat(2, 5), Rat(2, 5), Rat(2, 5)>>}
PredictorRows == {b \o h : b \in Boxes, h \in Heads}

\* the detection tensors [images, predictors, 5 + classes]
PredsDomain ==
    UNION {[1..b -> [1..p -> PredictorRows]] :
           <<b, p>> \in {s \in (1..MaxImages) \X (0..MaxPredictors) :
                         s[1] * s[2] <= MaxPredictors}}

\* the defaults of YOLO.__init__
ConfidenceThresholds == {Rat(1, 5)}
NmsThresholds == {Rat(9, 20)}

---------------------------------------------------------------------------
(* The post-processing as a state machine: construction, one call of       *)
(* process_detections, then lines 309-313 once more on what it returned.   *)

NoBatch == <<>>

InitDetections ==
    /\ NoNetwork /\ NoForward /\ NoStep /\ NoTargets /\ NoRest
    /\ confidence_threshold \in ConfidenceThresholds
    /\ nms_threshold \in NmsThresholds
    /\ detections_per_image \in {1, MaxDetections}
    /\ preds \in PredsDomain
    /\ pc = "start"
    /\ selected = <<>>
    /\ nms_keep = <<>>
    /\ result = <<>>
    /\ again = <<>>
    /\ batch = NoBatch
    /\ outcome = "none"

\* YOLO.process_detections(preds)
process_detections ==
    /\ pc = "start"
    /\ LET sels == [i \in 1..Len(preds) |->
                      SelectPredictions(preds[i], confidence_threshold)]
       IN  /\ selected' = sels
           /\ nms_keep' \in Choices([i \in 1..Len(preds) |->
                                       Suppress(sels[i], nms_threshold)])
           /\ result' = ResultList(sels, nms_keep', detections_per_image)
    /\ pc' = "processed"
    /\ UNCHANGED <<cfg_vars, preds, again, val_vars, net_vars, fwd_vars, step_vars, tgt_vars, rest_vars>>

\* lines 309-313 applied once more, to each dictionary of result
suppress_again ==
    /\ pc = "processed"
    /\ \E keeps \in Choices([i \in 1..Len(result) |->
                               Suppress(result[i], nms_threshold)]) :
           again' = ResultList(result, keeps, detections_per_image)
    /\ pc' = "again"
    /\ UNCHANGED <<cfg_vars, preds, selected, nms_keep, result, val_vars,
                   net_vars, fwd_vars, step_vars, tgt_vars, rest_vars>>

NextDetections == process_detections \/ suppress_again

SpecDetections == InitDetections /\ [][NextDetections]_vars

---------------------------------------------------------------------------
(* Claims about process_detections.                                        *)

Processed == pc \in {"processed", "again"}

\* the score of class c of predictor p of image i, read off the input
PairScore(i, p, c) == RMul(preds[i][p][6 + c], preds[i][p][5])
PairBox(i, p) == SubSeq(preds[i][p], 1, 4)

\* the predictor and the class a candidate of image i was selected from
CandidateIdx(i, j) == selected[i].idxs[j]
CandidateLabel(i, j) == selected[i].labels[j]
Candidates(i) == 1..Len(selected[i].labels)
Survivors(i) == Range(nms_keep[i])
Entries(d) == 1..Len(d.scores)

\* entry k of dictionary d is the detection of candidate j of image i
IsCandidate(d, k, i, j) ==
    /\ d.boxes[k] = selected[i].boxes[j]
    /\ d.labels[k] = selected[i].labels[j]
    /\ REq(d.scores[k], selected[i].scores[j])

InOutput(i, j) == \E k \in Entries(result[i]) : IsCandidate(result[i], k, i, j)

\* candidate m suppresses candidate j: same label, IoU above the threshold
Overlapping(i, m, j) ==
    /\ m # j
    /\ selected[i].labels[m] = selected[i].labels[j]
    /\ IoUAbove(selected[i].boxes[m], selected[i].boxes[j], nms_threshold)

\* C1: every emitted detection is a (predictor, class) pair of its image,
\* with that predictor's box, that class as label and the score class
\* probability * confidence, and this score is strictly greater than
\* confidence_threshold.
C1_EmittedScoresExceedThreshold ==
    Processed =>
        \A i \in 1..Len(result) : \A k \in Entries(result[i]) :
            LET j == nms_keep[i][k]
                p == CandidateIdx(i, j)
                c == CandidateLabel(i, j)
            IN  /\ result[i].labels[k] = c
                /\ result[i].boxes[k] = PairBox(i, p)
                /\ REq(result[i].scores[k], PairScore(i, p, c))
                /\ RGt(PairScore(i, p, c), confidence_threshold)

\* an image has detections, and a pair of it whose confidence alone exceeds
\* the threshold while its score does not
C1_Witness ==
    /\ pc = "processed"
    /\ \E i \in 1..Len(preds) :
          /\ Len(result[i].scores) > 0
          /\ \E p \in 1..Len(preds[i]) : \E c \in 0..(Len(preds[i][p]) - 6) :
                /\ RGt(preds[i][p][5], confidence_threshold)
                /\ ~RGt(PairScore(i, p, c), confidence_threshold)

\* C2: in the output of an image no two detections with the same label have
\* IoU above nms_threshold.
C2_NoOverlapWithinLabel ==
    Processed =>
        \A i \in 1..Len(result) : \A k, m \in Entries(result[i]) :
            (k # m /\ result[i].labels[k] = result[i].labels[m])
                => ~IoUAbove(result[i].boxes[k], result[i].boxes[m], nms_threshold)

\* NMS removed a candidate, and two detections of one label are in the output
C2_Witness ==
    /\ pc = "processed"
    /\ \E i \in 1..Len(result) :
          /\ Len(nms_keep[i]) < Len(selected[i].labels)
          /\ \E k, m \in Entries(result[i]) :
                k # m /\ result[i].labels[k] = result[i].labels[m]

\* C3: NMS removes a candidate only if a kept candidate with the same label
\* and a score at least as high has IoU above nms_threshold with it; labels
\* that differ never suppress each other.
C3_SuppressedOnlyWithinLabel ==
    Processed =>
        \A i \in 1..Len(selected) : \A j \in Candidates(i) :
            j \notin Survivors(i) =>
                \E m \in Survivors(i) :
                    /\ Overlapping(i, m, j)
                    /\ RGe(selected[i].scores[m], selected[i].scores[j])

\* NMS removed a candidate, and kept two candidates of different predictors
\* and different labels whose boxes have IoU above the threshold
C3_Witness ==
    /\ pc = "processed"
    /\ \E i \in 1..Len(selected) :
          /\ Candidates(i) \ Survivors(i) # {}
          /\ \E j, m \in Survivors(i) :
                /\ CandidateLabel(i, j) # CandidateLabel(i, m)
                /\ CandidateIdx(i, j) # CandidateIdx(i, m)
                /\ IoUAbove(selected[i].boxes[j], selected[i].boxes[m], nms_threshold)

C5_TruncationKeepsHighest ==
    Processed =>
        \A i \in 1..Len(result) :
            /\ Len(result[i].scores) <= detections_per_image
            /\ \A j \in Survivors(i) :
                  ~InOutput(i, j) =>
                      /\ Len(result[i].scores) = detections_per_image
                      /\ \A k \in Entries(result[i]) :
                            RGe(result[i].scores[k], selected[i].scores[j])

\* more candidates survive NMS than detections_per_image allows, with
\* different scores among them
C5_Witness ==
    /\ pc = "processed"
    /\ \E i \in 1..Len(result) :
          /\ Len(nms_keep[i]) > detections_per_image
          /\ \E j, m \in Survivors(i) :
                RGt(selected[i].scores[j], selected[i].scores[m])

\* C6: the detections of an image are sorted by descending score, all
\* labels together.
C6_SortedByDescendingScore ==
    Processed =>
        \A i \in 1..Len(result) : \A k \in Entries(result[i]) :
            k + 1 \in Entries(result[i])
                => RGe(result[i].scores[k], result[i].scores[k + 1])

\* an output with two labels and two scores, whose best entry is not the
\* first candidate
C6_Witness ==
    /\ pc = "processed"
    /\ \E i \in 1..Len(result) :
          /\ \E k, m \in Entries(result[i]) :
                /\ result[i].labels[k] # result[i].labels[m]
                /\ RGt(result[i].scores[k], result[i].scores[m])
          /\ ~IsCandidate(result[i], 1, i, 1)
\* both classes of predictor p of image i score above the threshold
TwoLabels(i, p) ==
    /\ Len(preds[i][p]) = 7
    /\ RGt(PairScore(i, p, 0), confidence_threshold)
    /\ RGt(PairScore(i, p, 1), confidence_threshold)

\* dictionary d holds the detection of class c of predictor p of image i
HoldsPair(d, i, p, c) ==
    \E k \in Entries(d) :
        /\ d.boxes[k] = PairBox(i, p)
        /\ d.labels[k] = c
        /\ REq(d.scores[k], PairScore(i, p, c))

\* C7 as stated: a predictor whose score exceeds the threshold for 2 classes
\* appears as 2 entries of the output, each with its own label and score and
\* both with the box of the predictor.
C7_TwoLabelsTwoOutputEntries ==
    Processed =>
        \A i \in 1..Len(preds) : \A p \in 1..Len(preds[i]) :
            TwoLabels(i, p) =>
                (HoldsPair(result[i], i, p, 0) /\ HoldsPair(result[i], i, p, 1))

\* C7 as amended: such a predictor gives 2 separate candidates to NMS, each
\* with its own label and score and both with the box of the predictor; each
\* of the two is an entry of the output unless NMS removes it for a kept
\* candidate of its label with a score at least as high and IoU above
\* nms_threshold, or the output is full (detections_per_image entries, none
\* scoring lower).
C7_TwoLabelsTwoCandidates ==
    Processed =>
        \A i \in 1..Len(preds) : \A p \in 1..Len(preds[i]) :
            TwoLabels(i, p) =>
                \A c \in {0, 1} :
                    LET from == {j \in Candidates(i) :
                                   CandidateIdx(i, j) = p /\ CandidateLabel(i, j) = c}
                    IN  /\ Cardinality(from) = 1
                        /\ \A j \in from :
                              /\ selected[i].boxes[j] = PairBox(i, p)
                              /\ REq(selected[i].scores[j], PairScore(i, p, c))
                              /\ \/ HoldsPair(result[i], i, p, c)
                                 \/ \E m \in Survivors(i) :
                                       /\ Overlapping(i, m, j)
                                       /\ RGe(selected[i].scores[m], selected[i].scores[j])
                                 \/ /\ Len(result[i].scores) = detections_per_image
                                    /\ \A k \in Entries(result[i]) :
                                          RGe(result[i].scores[k], selected[i].scores[j])

\* a predictor with two labels whose two detections are both in the output,
\* beside a second predictor whose box overlaps above the threshold
C7_Witness ==
    /\ pc = "processed"
    /\ \E i \in 1..Len(preds) : \E p, q \in 1..Len(preds[i]) :
          /\ TwoLabels(i, p)
          /\ HoldsPair(result[i], i, p, 0)
          /\ HoldsPair(result[i], i, p, 1)
          /\ p # q
          /\ IoUAbove(PairBox(i, p), PairBox(i, q), nms_threshold)

EntrySet(d) == {<<d.boxes[k], d.labels[k], d.scores[k]>> : k \in Entries(d)}

NothingSelected(i) ==
    \A p \in 1..Len(preds[i]) : \A c \in 0..(Len(preds[i][p]) - 6) :
        ~RGt(PairScore(i, p, c), confidence_threshold)

EmptyDetections == [boxes |-> <<>>, scores |-> <<>>, labels |-> <<>>]

\* C9: the result holds one dictionary per image, in the order of the
\* images; the dictionary of an image without a score above the threshold is
\* empty, and only such a dictionary is empty.
C9_EmptyImageEmptyDictionary ==
    Processed =>
        /\ Len(result) = Len(preds)
        /\ \A i \in 1..Len(preds) :
              /\ NothingSelected(i) => result[i] = EmptyDetections
              /\ (~NothingSelected(i) /\ detections_per_image >= 1)
                    => /\ Len(result[i].scores) >= 1
                       /\ \E p \in 1..Len(preds[i]) :
                             result[i].boxes[1] = PairBox(i, p)

\* a batch of two images that have predictors: the first without a score
\* above the threshold, the second with detections
C9_Witness ==
    /\ pc = "processed"
    /\ Len(preds) = 2
    /\ Len(preds[1]) > 0
    /\ NothingSelected(1)
    /\ result[1] = EmptyDetections
    /\ Len(result[2].scores) > 0

---------------------------------------------------------------------------
(* YOLO._validate_batch.  A value of the batch is [is_tensor, shape]: an   *)
(* object that is a torch.Tensor or not and, for a tensor, its shape.      *)
(* Every target is a dictionary with the keys "boxes" and "labels".        *)

Tensor(shape) == [is_tensor |-> TRUE, shape |-> shape]
NotATensor == [is_tensor |-> FALSE, shape |-> <<>>]
Ndim(t) == Len(t.shape)
\* len(t) of a tensor
TensorLen(t) == t.shape[1]

Raise(exception, check) == [raised |-> exception, check |-> check, returned |-> "nothing"]
Return(value) == [raised |-> "none", check |-> "none", returned |-> value]

\* torch.stack(images), line 374: a list of tensors of one shape becomes one
\* tensor; an empty list and tensors of unequal shapes raise a RuntimeError
Stack(images) ==
    IF images = <<>> \/ \E a, b \in 1..Len(images) : images[a].shape # images[b].shape
    THEN Raise("RuntimeError", "stack")
    ELSE Return(Tensor(<<Len(images)>> \o images[1].shape))

\* a mutant of TargetError: labels of any length pass
TargetError_length_unchecked(target) ==
    LET boxes == target.boxes
        labels == target.labels
    IN  IF ~boxes.is_tensor THEN "boxes type"
        ELSE IF Ndim(boxes) # 2 \/ boxes.shape[Len(boxes.shape)] # 4 THEN "boxes shape"
        ELSE IF ~labels.is_tensor THEN "labels type"
        ELSE IF Ndim(labels) < 1 \/ Ndim(labels) > 2 THEN "labels shape"
        ELSE "none"

\* lines 361-372: the check of one target that fails first, or "none"
TargetError(target) ==
    LET boxes == target.boxes
        labels == target.labels
    IN  IF ~boxes.is_tensor THEN "boxes type"
        ELSE IF Ndim(boxes) # 2 \/ boxes.shape[Len(boxes.shape)] # 4 THEN "boxes shape"
        ELSE IF ~labels.is_tensor THEN "labels type"
        ELSE IF Ndim(labels) < 1 \/ Ndim(labels) > 2
                \/ TensorLen(labels) # TensorLen(boxes) THEN "labels shape"
        ELSE "none"

\* a mutant of ValidateBatch: the numbers of images and targets are not
\* compared
ValidateBatch_count_unchecked(b) ==
    LET images == b[1]
        targets == b[2]
    IN  IF \E k \in 1..Len(images) : ~images[k].is_tensor
        THEN Raise("ValueError", "image type")
        ELSE IF \E k \in 1..Len(targets) : TargetError(targets[k]) # "none"
             THEN LET first == CHOOSE k \in 1..Len(targets) :
                                  /\ TargetError(targets[k]) # "none"
                                  /\ \A m \in 1..(k - 1) : TargetError(targets[m]) = "none"
                  IN  Raise("ValueError", TargetError(targets[first]))
        ELSE LET stacked == Stack(images)
             IN  IF stacked.raised # "none" THEN stacked
                 ELSE Return(<<stacked.returned, targets>>)

\* lines 351-375
ValidateBatch(b) ==
    LET images == b[1]
        targets == b[2]
    IN  IF Len(images) # Len(targets) THEN Raise("ValueError", "count")
        ELSE IF \E k \in 1..Len(images) : ~images[k].is_tensor
             THEN Raise("ValueError", "image type")
        ELSE IF \E k \in 1..Len(targets) : TargetError(targets[k]) # "none"
             THEN LET first == CHOOSE k \in 1..Len(targets) :
                                  /\ TargetError(targets[k]) # "none"
                                  /\ \A m \in 1..(k - 1) : TargetError(targets[m]) = "none"
                  IN  Raise("ValueError", TargetError(targets[first]))
        ELSE LET stacked == Stack(images)
             IN  IF stacked.raised # "none" THEN stacked
                 ELSE Return(<<stacked.returned, targets>>)

\* the batches the model draws
ImageValues == {Tensor(<<3, 2, 2>>), Tensor(<<3, 4, 4>>), NotATensor}
BoxesValues == {Tensor(<<2, 4>>), Tensor(<<1, 4>>), Tensor(<<2, 5>>), Tensor(<<8>>),
                NotATensor}
LabelsValues == {Tensor(<<2>>), Tensor(<<2, 3>>), Tensor(<<1>>), Tensor(<<>>),
                 Tensor(<<2, 3, 1>>), NotATensor}
TargetValues == [boxes : BoxesValues, labels : LabelsValues]
SeqsUpTo(S, n) == UNION {[1..k -> S] : k \in 0..n}
BatchDomain == SeqsUpTo(ImageValues, MaxImages) \X SeqsUpTo(TargetValues, MaxImages)

InitValidate ==
    /\ NoNetwork /\ NoForward /\ NoStep /\ NoTargets /\ NoRest
    /\ confidence_threshold \in ConfidenceThresholds
    /\ nms_threshold \in NmsThresholds
    /\ detections_per_image = 1
    /\ preds = <<>>
    /\ selected = <<>>
    /\ nms_keep = <<>>
    /\ result = <<>>
    /\ again = <<>>
    /\ pc = "start"
    /\ batch \in BatchDomain
    /\ outcome = "none"

\* YOLO._validate_batch(batch)
validate_batch ==
    /\ pc = "start"
    /\ batch # NoBatch
    /\ outcome' = ValidateBatch(batch)
    /\ pc' = "validated"
    /\ UNCHANGED <<cfg_vars, det_vars, batch, net_vars, fwd_vars, step_vars, tgt_vars, rest_vars>>

NextValidate == validate_batch

SpecValidate == InitValidate /\ [][NextValidate]_vars

---------------------------------------------------------------------------
(* Claims about _validate_batch.                                           *)

\* boxes of shape [N, 4] and labels of rank 1 or 2 with first dimension N
GoodTarget(t) ==
    /\ t.boxes.is_tensor
    /\ Len(t.boxes.shape) = 2
    /\ t.boxes.shape[2] = 4
    /\ t.labels.is_tensor
    /\ Len(t.labels.shape) \in {1, 2}
    /\ t.labels.shape[1] = t.boxes.shape[1]

SameCount == Len(batch[1]) = Len(batch[2])
ImagesAreTensors == \A k \in 1..Len(batch[1]) : batch[1][k].is_tensor
TargetsAreGood == \A k \in 1..Len(batch[2]) : GoodTarget(batch[2][k])
\* what the claim requires of a batch
WellFormed == SameCount /\ ImagesAreTensors /\ TargetsAreGood
\* at least one image, and all images of one shape
Stackable ==
    /\ Len(batch[1]) > 0
    /\ \A k \in 1..Len(batch[1]) : batch[1][k].shape = batch[1][1].shape

---------------------------------------------------------------------------
(* _validate_batch on tensors with an element type.  The class docstring   *)
(* (lines 51-53) asks for boxes that are a FloatTensor and labels that are *)
(* an Int64Tensor[N] or a BoolTensor[N, classes]; a value of these batches *)
(* carries its dtype beside its shape.                                     *)

TypedTensor(shape, dtype) == [is_tensor |-> TRUE, shape |-> shape, dtype |-> dtype]
Dtypes == {"float32", "int64", "bool"}

TypedImageValues == {TypedTensor(<<3, 2, 2>>, "float32")}
TypedBoxesValues == {TypedTensor(<<2, 4>>, d) : d \in Dtypes}
TypedLabelsValues == {TypedTensor(s, d) : s \in {<<2>>, <<2, 3>>, <<1>>}, d \in Dtypes}
TypedTargetValues == [boxes : TypedBoxesValues, labels : TypedLabelsValues]
TypedBatchDomain ==
    SeqsUpTo(TypedImageValues, MaxImages) \X SeqsUpTo(TypedTargetValues, MaxImages)

InitValidateTypes ==
    /\ NoNetwork /\ NoForward /\ NoStep /\ NoTargets /\ NoRest
    /\ confidence_threshold \in ConfidenceThresholds
    /\ nms_threshold \in NmsThresholds
    /\ detections_per_image = 1
    /\ preds = <<>>
    /\ selected = <<>>
    /\ nms_keep = <<>>
    /\ result = <<>>
    /\ again = <<>>
    /\ pc = "start"
    /\ batch \in TypedBatchDomain
    /\ outcome = "none"

SpecValidateTypes == InitValidateTypes /\ [][NextValidate]_vars

\* the element types the docstring and the data contract admit
BoxesDtypeOk(t) == t.boxes.dtype = "float32"
LabelsDtypeOk(t) == t.labels.dtype \in {"int64", "bool"}

\* C11: a batch with a target whose boxes are not floating-point values, or
\* whose labels are neither integer class ids nor a boolean class mask, makes
\* _validate_batch raise.
C11_WrongElementTypeRaises ==
    pc = "validated" =>
        ((\E k \in 1..Len(batch[2]) :
              ~BoxesDtypeOk(batch[2][k]) \/ ~LabelsDtypeOk(batch[2][k]))
            => outcome.raised # "none")

---------------------------------------------------------------------------
(* The constructors of the four networks of torch_networks.py, as far as   *)
(* the prior shapes go: the default, the divisibility check and the index  *)
(* groups given to detect3, detect4 and detect5.  Indices are 0-based as   *)
(* in the code.                                                            *)

Variants == {"YOLOV4TinyNetwork", "YOLOV4Network", "YOLOV5Network", "YOLOXNetwork"}
NumClassesValues == {1, 2}

\* the prior shapes learned from the COCO data
CocoPriorShapes ==
    <<<<12, 16>>, <<19, 36>>, <<40, 28>>, <<36, 75>>, <<76, 55>>, <<72, 146>>,
      <<142, 110>>, <<192, 243>>, <<459, 401>>>>
\* one anchor per cell, the stride as the prior size
StridePriorShapes == <<<<8, 8>>, <<16, 16>>, <<32, 32>>>>

DefaultPriorShapes(v) ==
    IF v = "YOLOXNetwork" THEN StridePriorShapes ELSE CocoPriorShapes

\* the list the constructor works with after the `if prior_shapes is None`
EffectivePriorShapes(v, shapes) ==
    IF shapes = None THEN DefaultPriorShapes(v) ELSE shapes[1]

\* the mutant of AnchorsPerCell: only a remainder of 2 is refused
AnchorsPerCell_remainder_one_passes(v, shapes) ==
    IF shapes = None
    THEN [anchors_per_cell |-> IF v = "YOLOXNetwork" THEN 1 ELSE 3, raised |-> "none"]
    ELSE [anchors_per_cell |-> Len(shapes[1]) \div 3,
          raised |-> IF Len(shapes[1]) % 3 > 1 THEN "ValueError" ELSE "none"]

\* anchors_per_cell and the ValueError of the check (lines 432-448, 577-593,
\* 759-775, 923-929)
AnchorsPerCell(v, shapes) ==
    IF shapes = None
    THEN [anchors_per_cell |-> IF v = "YOLOXNetwork" THEN 1 ELSE 3, raised |-> "none"]
    ELSE [anchors_per_cell |-> Len(shapes[1]) \div 3,
          raised |-> IF Len(shapes[1]) % 3 # 0 THEN "ValueError" ELSE "none"]

\* the mutant of OutChannels: the box and confidence channels are counted
\* once, not once per anchor
OutChannels_five_once(v, classes, apc) ==
    [layer \in {"detect3", "detect4", "detect5"} |-> 5 + classes * apc]

\* the channels of the heads out3, out4 and out5: num_outputs (lines 449,
\* 594, 776), or for YOLOX the box, confidence and class outputs that
\* forward concatenates (lines 968-1006)
OutChannels(v, classes, apc) ==
    [layer \in {"detect3", "detect4", "detect5"} |->
        IF v = "YOLOXNetwork"
        THEN apc * 4 + apc + apc * classes
        ELSE (5 + classes) * apc]

\* Python's range(a, b), as a sequence
PyRange(a, b) == [k \in 1..Max(0, b - a) |-> a + k - 1]

\* the number of a detection layer among detect3, detect4, detect5
LayerNames == <<"detect3", "detect4", "detect5">>
LayerNumber(layer) == CHOOSE k \in 1..3 : LayerNames[k] = layer

\* the mutant of PriorShapeIdxs: every group runs to the end of the list
PriorShapeIdxs_to_the_end(v, layer, apc) ==
    LET k == LayerNumber(layer)
    IN  IF v = "YOLOV4TinyNetwork"
        THEN PyRange(3 * (k - 1), 9)
        ELSE PyRange(apc * (k - 1), apc * 3)

\* the prior_shape_idxs given to detect(...) for a layer (lines 487-489,
\* 658-660, 825-827, 1014-1016)
PriorShapeIdxs(v, layer, apc) ==
    LET k == LayerNumber(layer)
    IN  IF v = "YOLOV4TinyNetwork"
        THEN PyRange(3 * (k - 1), 3 * k)
        ELSE PyRange(apc * (k - 1), apc * k)

\* create_detection_layer(prior_shapes, prior_shape_idxs, ...): what the call
\* can do.  A group that lies within the list gives a layer; what a group
\* with an index outside the list gives is left open.
CreateDetectionLayer(shapes, idxs) ==
    IF \A k \in 1..Len(idxs) : idxs[k] < Len(shapes)
    THEN {"none"}
    ELSE {"none", "IndexError"}

\* the explicit lists the model draws: (8, 8), (16, 16), ...
PriorLists == {[k \in 1..n |-> <<8 * k, 8 * k>>] : n \in (0..MaxPriors) \cup {12}}

InitNetworks ==
    /\ NoForward /\ NoStep /\ NoTargets /\ NoRest
    /\ confidence_threshold \in ConfidenceThresholds
    /\ nms_threshold \in NmsThresholds
    /\ detections_per_image = 1
    /\ preds = <<>>
    /\ selected = <<>>
    /\ nms_keep = <<>>
    /\ result = <<>>
    /\ again = <<>>
    /\ batch = NoBatch
    /\ outcome = "none"
    /\ pc = "start"
    /\ variant \in Variants
    /\ num_classes \in NumClassesValues
    /\ prior_shapes \in {None} \cup {Some(shapes) : shapes \in PriorLists}
    /\ anchors_per_cell = 0
    /\ out_channels = <<>>
    /\ detect = <<>>
    /\ error = "none"

not_net_vars == <<cfg_vars, det_vars, val_vars, fwd_vars, step_vars, tgt_vars, rest_vars>>

\* the head of the constructor: the default, the divisibility check and the
\* output layers
check_prior_shapes ==
    /\ pc = "start"
    /\ LET checked == AnchorsPerCell(variant, prior_shapes)
       IN  IF checked.raised # "none"
           THEN /\ error' = checked.raised
                /\ pc' = "raised"
                /\ UNCHANGED <<anchors_per_cell, out_channels>>
           ELSE /\ anchors_per_cell' = checked.anchors_per_cell
                /\ out_channels' =
                      OutChannels(variant, num_classes, checked.anchors_per_cell)
                /\ pc' = "checked"
                /\ UNCHANGED error
    /\ UNCHANGED <<variant, num_classes, prior_shapes, detect, not_net_vars>>

\* self.<layer> = detect(<the group of the layer>), after the layer `after`
CreateLayer(layer, after, then) ==
    /\ pc = after
    /\ LET idxs == PriorShapeIdxs(variant, layer, anchors_per_cell)
       IN  \E raised \in CreateDetectionLayer(
                             EffectivePriorShapes(variant, prior_shapes), idxs) :
               /\ detect' = detect @@ (layer :> idxs)
               /\ error' = raised
               /\ pc' = IF raised = "none" THEN then ELSE "raised"
    /\ UNCHANGED <<variant, num_classes, prior_shapes, anchors_per_cell, out_channels,
                   not_net_vars>>

create_detect3 == CreateLayer("detect3", "checked", "detect3")
create_detect4 == CreateLayer("detect4", "detect3", "detect4")
create_detect5 == CreateLayer("detect5", "detect4", "constructed")

NextNetworks ==
    check_prior_shapes \/ create_detect3 \/ create_detect4 \/ create_detect5

SpecNetworks == InitNetworks /\ [][NextNetworks]_vars

---------------------------------------------------------------------------
(* Claims about the constructors.                                          *)

Explicit == prior_shapes # None
\* the number of prior shapes the constructor works with
NumPriors == Len(EffectivePriorShapes(variant, prior_shapes))

\* C13: a constructor given an explicit prior_shapes list whose length is
\* not divisible by 3 raises a ValueError before any detection layer is
\* created; given a list whose length is divisible by 3 it raises no
\* ValueError and goes on to create the detection layers.
C13_IndivisibleLengthRaises ==
    (pc # "start" /\ Explicit) =>
        IF Len(prior_shapes[1]) % 3 # 0
        THEN error = "ValueError" /\ pc = "raised" /\ detect = <<>>
        ELSE error # "ValueError" /\ anchors_per_cell * 3 = Len(prior_shapes[1])
                /\ (pc = "checked" => ENABLED create_detect3)

\* each of the four constructors has refused a list, of a length with
\* remainder 1, without creating a layer
C13_Witness ==
    /\ pc = "raised"
    /\ Explicit
    /\ Len(prior_shapes[1]) % 3 = 1
    /\ error = "ValueError"
    /\ detect = <<>>

\* the layers that have been given a group so far
Created == DOMAIN detect
\* the indices of a group, as a set
GroupSet(layer) == Range(detect[layer])

\* C14: the index groups given to detect3, detect4 and detect5 partition the
\* prior shapes: each group is contiguous, has len(prior_shapes) / 3 members
\* and lies within the list, the groups are pairwise disjoint and together
\* cover every index, the first going to detect3 and the last to detect5.
C14_GroupsPartitionPriorShapes ==
    LET size == NumPriors \div 3
    IN  /\ \A layer \in Created :
              LET k == LayerNumber(layer)
              IN  /\ Len(detect[layer]) = size
                  /\ GroupSet(layer) = (size * (k - 1))..(size * k - 1)
                  /\ GroupSet(layer) \subseteq 0..(NumPriors - 1)
                  /\ \A j \in 1..Len(detect[layer]) :
                        detect[layer][j] = size * (k - 1) + j - 1
        /\ \A a, b \in Created : a # b => GroupSet(a) \cap GroupSet(b) = {}
        /\ pc = "constructed" =>
              UNION {GroupSet(layer) : layer \in Created} = 0..(NumPriors - 1)

\* C15 as stated: every detection layer is assigned a group of at least 3
\* prior shapes.
C15_AtLeastThreePerLayer ==
    \A layer \in Created : Len(detect[layer]) >= 3

\* C15 as amended: a detection layer of YOLOV4Network, YOLOV5Network or
\* YOLOXNetwork is assigned len(prior_shapes) / 3 indices, which is 3 with
\* the defaults of YOLOV4Network and YOLOV5Network, 1 with the default of
\* YOLOXNetwork and any number from 0 up with an explicit list; a detection
\* layer of YOLOV4TinyNetwork is assigned exactly 3 indices, with the
\* default as with any explicit list.
C15_GroupSizePerVariant ==
    \A layer \in Created :
        LET size == Len(detect[layer])
        IN  /\ variant = "YOLOV4TinyNetwork" => size = 3
            /\ variant # "YOLOV4TinyNetwork" =>
                  /\ size * 3 = NumPriors
                  /\ (~Explicit /\ variant \in {"YOLOV4Network", "YOLOV5Network"})
                        => size = 3
                  /\ (~Explicit /\ variant = "YOLOXNetwork") => size = 1
            /\ Cardinality(GroupSet(layer)) = size

\* a YOLOXNetwork constructed with the default, one prior shape per layer
C15_Witness ==
    /\ pc = "constructed"
    /\ variant = "YOLOXNetwork"
    /\ ~Explicit
    /\ \A layer \in Range(LayerNames) : layer \in Created /\ Len(detect[layer]) = 1

\* C26: in a constructed network of any variant, given any prior_shapes
\* list in which the groups of all layers lie, the head of every detection
\* layer has as many output channels as the layer has prior shapes
\* assigned, times 5 + num_classes.
C26_HeadChannelsMatchPriors ==
    (/\ pc = "constructed"
     /\ \A layer \in Created : GroupSet(layer) \subseteq 0..(NumPriors - 1)) =>
        \A layer \in Created :
            out_channels[layer] = Len(detect[layer]) * (5 + num_classes)

---------------------------------------------------------------------------
(* The forward pass: the forward method of the networks (the collection of *)
(* the detection layers' outputs, torch_networks.py lines 491-524, 662-703,*)
(* 829-867, 1018-1071) and YOLO.forward (yolo_module.py lines 134-146).    *)
(* The images are the stacked tensor [B, 3, H, W].  A loss is a real       *)
(* number; the model draws small integers.                                 *)

\* the order in which forward calls the detection layers
LayerOrder(v) ==
    IF v = "YOLOV4TinyNetwork"
    THEN <<"detect5", "detect4", "detect3">>
    ELSE <<"detect3", "detect4", "detect5">>

\* a detection layer on which forward has not yet been called with targets
Unset == [losses |-> None, hits |-> 0]

\* the predictors of a layer: the finest feature map has the most cells
Predictors(layer) == IF layer = "detect3" THEN 2 ELSE 1

\* DetectionLayer.forward, the detections it returns: one row per image and
\* predictor, whatever the targets
RawDetections(layer, imgs) ==
    [i \in 1..imgs.shape[1] |-> [c \in 1..Predictors(layer) |-> <<layer, i, c>>]]

\* the boxes of all targets together
RECURSIVE TotalBoxes(_)
TotalBoxes(tgts) ==
    IF tgts = <<>> THEN 0 ELSE Head(tgts).boxes.shape[1] + TotalBoxes(Tail(tgts))

\* DetectionLayer.forward with targets, the attributes it sets: the three
\* losses <<overlap, confidence, class>> and the number of targets the layer
\* was responsible for
LayerOutcomes(tgts) ==
    {o \in {[losses |-> <<0, 1, 0>>, hits |-> 0],
            [losses |-> <<1, 2, 0>>, hits |-> 1],
            [losses |-> <<2, 0, 3>>, hits |-> 2]} : o.hits <= TotalBoxes(tgts)}

\* the mutant of NetworkForward: losses and hits are collected always
NetworkForward_collects_always(v, layer_attrs, imgs, tgts) ==
    LET order == LayerOrder(v)
    IN  [detections |-> [k \in 1..3 |-> RawDetections(order[k], imgs)],
         losses |-> [k \in 1..3 |-> layer_attrs[order[k]].losses],
         hits |-> [k \in 1..3 |-> layer_attrs[order[k]].hits]]

\* a mutant of NetworkForward: the losses of the first layer called are
\* collected again in place of those of the last
NetworkForward_first_layer_twice(v, layer_attrs, imgs, tgts) ==
    LET order == LayerOrder(v)
        read == <<order[1], order[2], order[1]>>
    IN  [detections |-> [k \in 1..3 |-> RawDetections(order[k], imgs)],
         losses |-> IF tgts = None THEN <<>>
                    ELSE [k \in 1..3 |-> layer_attrs[read[k]].losses],
         hits |-> IF tgts = None THEN <<>>
                  ELSE [k \in 1..3 |-> layer_attrs[read[k]].hits]]

\* a mutant of NetworkForward: the detections of the second layer called are
\* appended inside its `if targets is not None`
NetworkForward_detections_under_if(v, layer_attrs, imgs, tgts) ==
    LET order == LayerOrder(v)
        called == IF tgts = None THEN <<order[1], order[3]>> ELSE order
    IN  [detections |-> [k \in 1..Len(called) |-> RawDetections(called[k], imgs)],
         losses |-> IF tgts = None THEN <<>>
                    ELSE [k \in 1..3 |-> layer_attrs[order[k]].losses],
         hits |-> IF tgts = None THEN <<>>
                  ELSE [k \in 1..3 |-> layer_attrs[order[k]].hits]]

\* the network's forward(x, targets): the lists detections, losses, hits;
\* layer_attrs are the layers' attributes after the layers have been called
NetworkForward(v, layer_attrs, imgs, tgts) ==
    LET order == LayerOrder(v)
    IN  [detections |-> [k \in 1..3 |-> RawDetections(order[k], imgs)],
         losses |-> IF tgts = None THEN <<>>
                    ELSE [k \in 1..3 |-> layer_attrs[order[k]].losses],
         hits |-> IF tgts = None THEN <<>>
                  ELSE [k \in 1..3 |-> layer_attrs[order[k]].hits]]

\* sum(numbers)
RECURSIVE SeqSum(_)
SeqSum(numbers) == IF numbers = <<>> THEN 0 ELSE Head(numbers) + SeqSum(Tail(numbers))

\* torch.cat(detections, 1): the layers' rows of each image, one after another
RECURSIVE Cat1(_)
Cat1(detections) ==
    IF Len(detections) = 1 THEN detections[1]
    ELSE LET rest == Cat1(Tail(detections))
         IN  [i \in 1..Len(detections[1]) |-> detections[1][i] \o rest[i]]

\* a mutant of HitRate: the guard looks at the hits of the layer
HitRate_guard_on_layer_hits(layer_hits, total_hits) ==
    IF layer_hits > 0 THEN Rat(layer_hits, total_hits) ELSE Rat(1, 1)

\* the mutant of HitRate: the division is not guarded
HitRate_unguarded(layer_hits, total_hits) == Rat(layer_hits, total_hits)

\* line 142: torch.true_divide(layer_hits, total_hits) if total_hits > 0 else 1.0
HitRate(layer_hits, total_hits) ==
    IF total_hits > 0 THEN Rat(layer_hits, total_hits) ELSE Rat(1, 1)

\* lines 140-143: the entries forward logs, <<name, layer_idx, value>>
HitRateLog(hits) ==
    LET total_hits == SeqSum(hits)
    IN  [k \in 1..Len(hits) |-> <<"layer_hit_rate", k - 1, HitRate(hits[k], total_hits)>>]

\* the mutant of SumLosses: the sum runs over the components, not the layers
SumLosses_over_components(losses) == [k \in 1..Len(losses) |-> SeqSum(losses[k])]

\* line 145: torch.stack(losses).sum(0)
SumLosses(losses) ==
    [c \in 1..Len(losses[1]) |-> SeqSum([k \in 1..Len(losses) |-> losses[k][c]])]

\* what forward returns: the detections alone, or the pair
ReturnDetections(detections) ==
    [pair |-> FALSE, detections |-> detections, losses |-> None]
ReturnPair(detections, losses) ==
    [pair |-> TRUE, detections |-> detections, losses |-> losses]

\* the mutant of YoloForward: the pair is returned always
YoloForward_pair_always(net_out, tgts) ==
    LET detections == Cat1(net_out.detections)
    IN  IF tgts = None
        THEN [returned |-> ReturnPair(detections, <<0, 0, 0>>), logged |-> <<>>]
        ELSE [returned |-> ReturnPair(detections, SumLosses(net_out.losses)),
              logged |-> HitRateLog(net_out.hits)]

\* lines 136-146: what YOLO.forward returns and logs, given what the network
\* returned
YoloForward(net_out, tgts) ==
    LET detections == Cat1(net_out.detections)
    IN  IF tgts = None
        THEN [returned |-> ReturnDetections(detections), logged |-> <<>>]
        ELSE [returned |-> ReturnPair(detections, SumLosses(net_out.losses)),
              logged |-> HitRateLog(net_out.hits)]

\* the inputs of the forward passes the model draws
ForwardImages == {Tensor(<<b, 3, 2, 2>>) : b \in 1..MaxImages}
ForwardTargetValues == {[boxes |-> Tensor(<<2, 4>>), labels |-> Tensor(<<2>>)],
                        [boxes |-> Tensor(<<0, 4>>), labels |-> Tensor(<<0>>)]}
\* one target per image: all with two boxes, or all without a box
ForwardTargets(imgs) == {[i \in 1..imgs.shape[1] |-> t] : t \in ForwardTargetValues}

\* a network as its constructor leaves it, given the default prior shapes
Constructed(v) ==
    /\ variant = v
    /\ num_classes = 1
    /\ prior_shapes = None
    /\ anchors_per_cell = AnchorsPerCell(v, None).anchors_per_cell
    /\ out_channels = OutChannels(v, 1, AnchorsPerCell(v, None).anchors_per_cell)
    /\ detect = [layer \in Range(LayerNames) |->
                   PriorShapeIdxs(v, layer, AnchorsPerCell(v, None).anchors_per_cell)]
    /\ error = "none"

InitForward ==
    /\ NoStep /\ NoTargets /\ NoRest
    /\ confidence_threshold \in ConfidenceThresholds
    /\ nms_threshold \in NmsThresholds
    /\ detections_per_image = 1
    /\ preds = <<>>
    /\ selected = <<>>
    /\ nms_keep = <<>>
    /\ result = <<>>
    /\ again = <<>>
    /\ batch = NoBatch
    /\ outcome = "none"
    /\ pc = "constructed"
    /\ \E v \in Variants : Constructed(v)
    /\ input_images \in ForwardImages
    /\ input_targets = None
    /\ attrs = [layer \in Range(LayerNames) |-> Unset]
    /\ network_out = None
    /\ returned = None
    /\ reference = None
    /\ network_calls = 0
    /\ logged = <<>>

\* self(images, targets), with targets or without: the network is run, each
\* detection layer called with targets sets its attributes, and forward
\* returns and logs
Forward(tgts) ==
    /\ network_calls < MaxCalls
    /\ \E outcomes \in [Range(LayerNames) -> LayerOutcomes(IF tgts = None THEN <<>> ELSE tgts[1])] :
          LET layer_attrs == IF tgts = None THEN attrs ELSE outcomes
              net_out == NetworkForward(variant, layer_attrs, input_images, tgts)
              done == YoloForward(net_out, tgts)
          IN  /\ attrs' = layer_attrs
              /\ network_out' = net_out
              /\ returned' = Some(done.returned)
              /\ logged' = done.logged
              /\ reference' = IF reference = None
                              THEN Some([targets |-> tgts, detections |-> done.returned.detections])
                              ELSE reference
    /\ input_targets' = tgts
    /\ network_calls' = network_calls + 1
    /\ pc' = "forward"
    /\ UNCHANGED <<input_images, cfg_vars, det_vars, val_vars, net_vars, step_vars, tgt_vars, rest_vars>>

forward_without_targets == Forward(None)
forward_with_targets == \E tgts \in ForwardTargets(input_images) : Forward(Some(tgts))

NextForward == forward_without_targets \/ forward_with_targets

SpecForward == InitForward /\ [][NextForward]_vars

---------------------------------------------------------------------------
(* Claims about the forward pass.                                          *)

WithTargets == input_targets # None
\* the rows the detection layers produce for image i
AllRows(i) ==
    UNION {{<<layer, i, c>> : c \in 1..Predictors(layer)} : layer \in Range(LayerNames)}
\* the detections hold, for every image, every row of every layer once
AllLayersConcatenated(detections) ==
    /\ Len(detections) = input_images.shape[1]
    /\ \A i \in 1..Len(detections) :
          /\ Range(detections[i]) = AllRows(i)
          /\ Len(detections[i]) = Cardinality(AllRows(i))

C17_LossesSummedOverLayers ==
    (pc = "forward" /\ WithTargets) =>
        \A c \in 1..3 :
            returned[1].losses[c] =
                attrs["detect3"].losses[c] + attrs["detect4"].losses[c]
                    + attrs["detect5"].losses[c]

\* a forward pass with targets in which the three layers report three
\* different losses
C17_Witness ==
    /\ pc = "forward"
    /\ WithTargets
    /\ Cardinality({attrs[layer].losses : layer \in Range(LayerNames)}) = 3
    /\ returned[1].losses = <<3, 3, 3>>

\* C18: every forward pass of a network on the same images returns the same
\* detections, with targets or without.
C18_DetectionsIndependentOfTargets ==
    pc = "forward" => returned[1].detections = reference[1].detections

\* a second forward pass, with targets after one without or the other way
\* round
C18_Witness ==
    /\ pc = "forward"
    /\ network_calls = 2
    /\ (reference[1].targets = None) # (input_targets = None)
    /\ returned[1].detections = reference[1].detections
    /\ Len(returned[1].detections[1]) = 4

\* C19: forward logs one hit rate per layer and never divides by zero: the
\* rate is 1 when the layers' hits sum to zero, and otherwise the layer's
\* hits divided by that sum.
C19_HitRateNeverDividesByZero ==
    (pc = "forward" /\ WithTargets) =>
        LET total == attrs["detect3"].hits + attrs["detect4"].hits + attrs["detect5"].hits
            order == LayerOrder(variant)
        IN  /\ Len(logged) = 3
            /\ \A k \in 1..3 :
                  /\ logged[k][1] = "layer_hit_rate"
                  /\ logged[k][2] = k - 1
                  /\ logged[k][3].den # 0
                  /\ total = 0 => REq(logged[k][3], Rat(1, 1))
                  /\ total # 0 =>
                        logged[k][3].num * total = attrs[order[k]].hits * logged[k][3].den

\* a forward pass with targets in which no layer was responsible for a
\* target
C19_Witness ==
    /\ pc = "forward"
    /\ WithTargets
    /\ \A layer \in Range(LayerNames) : attrs[layer].hits = 0
    /\ TotalBoxes(input_targets[1]) > 0
    /\ Len(logged) = 3

---------------------------------------------------------------------------
(* training_step, validation_step and test_step (yolo_module.py lines      *)
(* 187-197, 207-217, 233-243).  A step is followed statement by statement: *)
(* the validation, the forward pass, the logging of the losses and, in     *)
(* validation and test, the update of the mAP accumulator.  An exception   *)
(* ends the step.                                                          *)

\* the batches the data loader hands to the steps
StepBatches ==
    LET image == Tensor(<<3, 2, 2>>)
        one == [boxes |-> Tensor(<<1, 4>>), labels |-> Tensor(<<1>>)]
        empty == [boxes |-> Tensor(<<0, 4>>), labels |-> Tensor(<<0, 3>>)]
        bad == [boxes |-> Tensor(<<1, 4>>), labels |-> Tensor(<<2>>)]
    IN  {<<<<image>>, <<one>>>>,
         <<<<image, image>>, <<empty, one>>>>,
         <<<<image>>, <<>>>>,
         <<<<image>>, <<bad>>>>,
         <<<<NotATensor>>, <<one>>>>,
         <<<<image, Tensor(<<3, 4, 4>>)>>, <<one, one>>>>}

InitSteps ==
    /\ NoForward /\ NoStep /\ NoTargets /\ NoRest
    /\ confidence_threshold \in ConfidenceThresholds
    /\ nms_threshold \in NmsThresholds
    /\ detections_per_image = 1
    /\ preds = <<>>
    /\ selected = <<>>
    /\ nms_keep = <<>>
    /\ result = <<>>
    /\ again = <<>>
    /\ batch = NoBatch
    /\ outcome = "none"
    /\ pc = "constructed"
    /\ \E v \in Variants : Constructed(v)

\* line 187, 207 or 233: Lightning calls the step k with a batch, and the
\* step validates the batch
BeginStep(k) ==
    /\ stage \in {"idle", "raised", "done"}
    /\ batch_idx < MaxSteps
    /\ batch' \in StepBatches
    /\ outcome' = ValidateBatch(batch')
    /\ stage' = IF outcome'.raised = "none" THEN "validated" ELSE "raised"
    /\ kind' = k
    /\ batch_idx' = batch_idx + 1
    /\ network_calls' = 0
    /\ logged' = <<>>
    /\ UNCHANGED <<input_images, input_targets, attrs, network_out, returned, reference,
                   val_map, test_map, pc, cfg_vars, det_vars, net_vars, tgt_vars, rest_vars>>

training_step == BeginStep("train")
validation_step == BeginStep("val")
test_step == BeginStep("test")

\* line 188, 208 or 234: self(images, targets)
step_forward ==
    /\ stage = "validated"
    /\ LET tgts == Some(outcome.returned[2])
       IN  /\ input_images' = outcome.returned[1]
           /\ input_targets' = tgts
           /\ \E outcomes \in [Range(LayerNames) -> LayerOutcomes(tgts[1])] :
                 LET net_out == NetworkForward(variant, outcomes, input_images', tgts)
                     done == YoloForward(net_out, tgts)
                 IN  /\ attrs' = outcomes
                     /\ network_out' = net_out
                     /\ returned' = Some(done.returned)
                     /\ logged' = logged \o done.logged
    /\ network_calls' = network_calls + 1
    /\ stage' = "forwarded"
    /\ UNCHANGED <<reference, kind, batch_idx, val_map, test_map, pc,
                   cfg_vars, det_vars, val_vars, net_vars, tgt_vars, rest_vars>>

\* lines 192-197, 210-213 or 236-239: the three losses and their sum are
\* logged; training_step returns here
step_log_losses ==
    /\ stage = "forwarded"
    /\ LET losses == returned[1].losses
       IN  logged' = logged \o <<<<kind, "overlap_loss", losses[1]>>,
                                 <<kind, "confidence_loss", losses[2]>>,
                                 <<kind, "class_loss", losses[3]>>,
                                 <<kind, "total_loss", SeqSum(losses)>>>>
    /\ stage' = IF kind = "train" THEN "done" ELSE "logged"
    /\ UNCHANGED <<input_images, input_targets, attrs, network_out, returned, reference,
                   network_calls, kind, batch_idx, val_map, test_map, pc,
                   cfg_vars, det_vars, val_vars, net_vars, tgt_vars, rest_vars>>

\* lines 215-217 or 241-243: the detections and the targets are processed
\* and given to the mAP accumulator of the step
step_update_map ==
    /\ stage = "logged"
    /\ val_map' = IF kind = "val" THEN Append(val_map, batch_idx) ELSE val_map
    /\ test_map' = IF kind = "test" THEN Append(test_map, batch_idx) ELSE test_map
    /\ stage' = "done"
    /\ UNCHANGED <<fwd_vars, kind, batch_idx, pc, cfg_vars, det_vars, val_vars,
                   net_vars, tgt_vars, rest_vars>>

\* MAP.compute() of an accumulator: scores that are a function of the
\* updates it was given since it was created or reset
MapScores(updates) == [map |-> updates]

\* the mutant of EpochEnd: the scores of the other accumulator are logged
EpochEnd_other_accumulator(k) ==
    /\ stage \in {"idle", "raised", "done"}
    /\ LET map_scores == MapScores(IF k = "val" THEN test_map ELSE val_map)
       IN  logged' = <<<<k, "map", map_scores.map>>>>
    /\ val_map' = IF k = "val" THEN <<>> ELSE val_map
    /\ test_map' = IF k = "test" THEN <<>> ELSE test_map
    /\ kind' = IF k = "val" THEN "validation_epoch_end" ELSE "test_epoch_end"
    /\ stage' = "idle"
    /\ UNCHANGED <<input_images, input_targets, attrs, network_out, returned, reference,
                   network_calls, batch_idx, pc, cfg_vars, det_vars, val_vars, net_vars,
                   tgt_vars, rest_vars>>

\* lines 219-223 or 245-249: the scores of the accumulator of k are
\* computed, logged under the prefix of k, and the accumulator is reset; no
\* step is running afterwards
EpochEnd(k) ==
    /\ stage \in {"idle", "raised", "done"}
    /\ LET map_scores == MapScores(IF k = "val" THEN val_map ELSE test_map)
       IN  logged' = <<<<k, "map", map_scores.map>>>>
    /\ val_map' = IF k = "val" THEN <<>> ELSE val_map
    /\ test_map' = IF k = "test" THEN <<>> ELSE test_map
    /\ kind' = IF k = "val" THEN "validation_epoch_end" ELSE "test_epoch_end"
    /\ stage' = "idle"
    /\ UNCHANGED <<input_images, input_targets, attrs, network_out, returned, reference,
                   network_calls, batch_idx, pc, cfg_vars, det_vars, val_vars, net_vars,
                   tgt_vars, rest_vars>>

validation_epoch_end == EpochEnd("val")
test_epoch_end == EpochEnd("test")

NextSteps ==
    \/ training_step \/ validation_step \/ test_step
    \/ step_forward \/ step_log_losses \/ step_update_map
    \/ validation_epoch_end \/ test_epoch_end

SpecSteps == InitSteps /\ [][NextSteps]_vars

\* C12: in training_step, validation_step and test_step the batch is
\* validated before anything else: for a batch that validation refuses (a
\* batch that is not well formed or cannot be stacked) the step ends with the
\* error, the network is not invoked, nothing is logged and no mAP
\* accumulator is updated with the batch.
C12_NothingRunsAfterFailedValidation ==
    stage # "idle" =>
        /\ (outcome.raised # "none" \/ ~(WellFormed /\ Stackable)) =>
              /\ outcome.raised # "none"
              /\ stage = "raised"
              /\ network_calls = 0
              /\ logged = <<>>
              /\ batch_idx \notin Range(val_map)
              /\ batch_idx \notin Range(test_map)
        /\ network_calls > 0 => (outcome.raised = "none" /\ network_calls = 1)

\* a validation step whose batch was refused, after a validation step that
\* went through and updated the accumulator
C12_Witness ==
    /\ stage = "raised"
    /\ kind = "val"
    /\ batch_idx = 2
    /\ val_map = <<1>>
    /\ outcome.raised = "ValueError"
    /\ network_calls = 0

---------------------------------------------------------------------------
(* YOLO.process_targets (yolo_module.py lines 318-338).  Here a target     *)
(* carries its content: boxes is the sequence of its N boxes, labels is    *)
(* [ndim, data] with data the N class ids (ndim 1) or the N rows of the    *)
(* boolean class mask (ndim 2).                                            *)

\* the mutant of ProcessImageTargets: the boxes are not picked by idxs
ProcessImageTargets_boxes_not_gathered(image_targets) ==
    LET boxes == image_targets.boxes
        labels == image_targets.labels
    IN  IF labels.ndim = 2
        THEN LET found == Nonzero(labels.data)
             IN  [boxes |-> boxes,
                  labels |-> [ndim |-> 1, data |-> [k \in 1..Len(found) |-> found[k][2]]]]
        ELSE [boxes |-> boxes, labels |-> labels]

\* lines 331-336: the dictionary appended for one image
ProcessImageTargets(image_targets) ==
    LET boxes == image_targets.boxes
        labels == image_targets.labels
    IN  IF labels.ndim = 2
        THEN LET found == Nonzero(labels.data)
                 idxs == [k \in 1..Len(found) |-> found[k][1]]
             IN  [boxes |-> Gather(boxes, idxs),
                  labels |-> [ndim |-> 1, data |-> [k \in 1..Len(found) |-> found[k][2]]]]
        ELSE [boxes |-> boxes, labels |-> labels]

\* lines 328-338
ProcessTargets(tgts) == [i \in 1..Len(tgts) |-> ProcessImageTargets(tgts[i])]

\* the targets the model draws: two boxes, two classes
TargetBoxes == {<<0, 0, 3, 2>>, <<1, 0, 4, 2>>}
ClassIds == {0, 1}
LabelsOf(n) ==
    {[ndim |-> 1, data |-> d] : d \in [1..n -> ClassIds]}
        \cup {[ndim |-> 2, data |-> d] : d \in [1..n -> [1..Cardinality(ClassIds) -> BOOLEAN]]}
TargetsOf(n) == {[boxes |-> b, labels |-> l] : b \in [1..n -> TargetBoxes], l \in LabelsOf(n)}
\* the numbers of boxes of the images of a batch
BoxCounts ==
    {c \in UNION {[1..b -> 0..MaxTargets] : b \in 1..MaxImages} : SeqSum(c) <= MaxTargets}
TargetLists == UNION {Choices([i \in 1..Len(c) |-> TargetsOf(c[i])]) : c \in BoxCounts}

InitTargets ==
    /\ NoNetwork /\ NoStep /\ NoTargets /\ NoRest
    /\ confidence_threshold \in ConfidenceThresholds
    /\ nms_threshold \in NmsThresholds
    /\ detections_per_image = 1
    /\ preds = <<>>
    /\ selected = <<>>
    /\ nms_keep = <<>>
    /\ result = <<>>
    /\ again = <<>>
    /\ batch = NoBatch
    /\ outcome = "none"
    /\ pc = "start"
    /\ input_images = None
    /\ input_targets \in {Some(tgts) : tgts \in TargetLists}
    /\ attrs = <<>>
    /\ network_out = None
    /\ returned = None
    /\ reference = None
    /\ network_calls = 0
    /\ logged = <<>>

\* YOLO.process_targets(targets)
process_targets ==
    /\ pc = "start"
    /\ processed' = Some(ProcessTargets(input_targets[1]))
    /\ pc' = "targets processed"
    /\ UNCHANGED <<cfg_vars, det_vars, val_vars, net_vars, fwd_vars, step_vars, rest_vars>>

NextTargets == process_targets

SpecTargets == InitTargets /\ [][NextTargets]_vars

\* the true cells of a class mask, <<row, class>> with the class 0-based
TrueCells(mask) ==
    {cell \in (1..Len(mask)) \X ClassIds : mask[cell[1]][cell[2] + 1]}

\* C20: for a target with a 2-dimensional boolean class mask process_targets
\* returns one (box, label) entry per true cell, with the box of the row and
\* the class index of the column, so as many entries as there are true
\* cells; a target with 1-dimensional labels is returned with its boxes and
\* labels unchanged; there is one dictionary per image.
C20_OneTargetPerLabel ==
    pc = "targets processed" =>
        /\ Len(processed[1]) = Len(input_targets[1])
        /\ \A i \in 1..Len(input_targets[1]) :
              LET target == input_targets[1][i]
                  out == processed[1][i]
              IN  IF target.labels.ndim = 2
                  THEN /\ out.labels.ndim = 1
                       /\ Len(out.boxes) = Cardinality(TrueCells(target.labels.data))
                       /\ Len(out.labels.data) = Len(out.boxes)
                       /\ \A b \in TargetBoxes : \A c \in ClassIds :
                             Cardinality({k \in 1..Len(out.boxes) :
                                            out.boxes[k] = b /\ out.labels.data[k] = c})
                               = Cardinality({cell \in TrueCells(target.labels.data) :
                                                target.boxes[cell[1]] = b /\ cell[2] = c})
                  ELSE out.boxes = target.boxes /\ out.labels = target.labels

\* a class mask with a row of two classes and a row of none, beside an image
\* whose labels are class ids
C20_Witness ==
    /\ pc = "targets processed"
    /\ \E i, j \in 1..Len(input_targets[1]) :
          LET target == input_targets[1][i]
          IN  /\ target.labels.ndim = 2
              /\ Len(target.boxes) = 2
              /\ target.boxes[1] # target.boxes[2]
              /\ target.labels.data = <<<<FALSE, FALSE>>, <<TRUE, TRUE>>>>
              /\ Len(processed[1][i].boxes) = 2
              /\ input_targets[1][j].labels.ndim = 1

---------------------------------------------------------------------------
(* YOLO.configure_optimizers (yolo_module.py lines 148-174).  A dictionary *)
(* of keyword arguments is a function from its keys to their values.  A    *)
(* parameter stands for its name, and a name is the sequence of its pieces *)
(* cut before every dot: "network.out3.weight" is                          *)
(* <<"network", ".out3", ".weight">>.                                      *)

\* str.endswith, for a name and a suffix cut into their pieces
EndsWith(name, suffix) ==
    /\ Len(name) >= Len(suffix)
    /\ SubSeq(name, Len(name) - Len(suffix) + 1, Len(name)) = suffix

\* line 159
ConvWeightSuffix == <<".conv", ".weight">>

\* "weight_decay" in params and params["weight_decay"] != 0 (line 154)
HasWeightDecay(params) ==
    /\ "weight_decay" \in DOMAIN params
    /\ params["weight_decay"].num # 0

\* dict.pop on a copy: the dictionary without the key (lines 155-156)
Without(params, key) == [k \in (DOMAIN params) \ {key} |-> params[k]]

\* the mutant of WdGroup: every weight is decayed, those of the
\* normalization layers and of the output layers too
WdGroup_every_weight(names) ==
    SelectSeq(names, LAMBDA name : EndsWith(name, <<".weight">>))

\* lines 158-163: the two lists the loop over named_parameters fills
WdGroup(names) ==
    SelectSeq(names, LAMBDA name : EndsWith(name, ConvWeightSuffix))

DefaultGroup(names) ==
    SelectSeq(names, LAMBDA name : ~EndsWith(name, ConvWeightSuffix))

\* the mutant of OptimizerArguments: weight_decay stays among the keyword
\* arguments and the parameters are never split
OptimizerArguments_never_split(params, names) ==
    [grouped |-> FALSE, params |-> names, defaults |-> params]

\* lines 154-171: the arguments self.optimizer_class is called with
OptimizerArguments(params, names) ==
    IF HasWeightDecay(params)
    THEN [grouped |-> TRUE,
          params |-> <<[params |-> DefaultGroup(names), weight_decay |-> Rat(0, 1)],
                       [params |-> WdGroup(names),
                        weight_decay |-> params["weight_decay"]]>>,
          defaults |-> Without(params, "weight_decay")]
    ELSE [grouped |-> FALSE, params |-> names, defaults |-> params]

\* lines 172-173
ConfigureOptimizers(params, names) ==
    LET optimizer == OptimizerArguments(params, names)
    IN  [optimizers |-> <<optimizer>>,
         lr_schedulers |-> <<[optimizer |-> optimizer]>>]

\* the names of the parameters of a network: the weights of the
\* convolutions inside the Conv blocks, the parameters of their
\* normalization layers, and the weight and bias of an output convolution
ParameterNames ==
    <<<<"network", ".backbone", ".stage1", ".conv", ".weight">>,
      <<"network", ".backbone", ".stage1", ".norm", ".weight">>,
      <<"network", ".backbone", ".stage1", ".norm", ".bias">>,
      <<"network", ".fpn3", ".conv", ".weight">>,
      <<"network", ".out3", ".weight">>,
      <<"network", ".out3", ".bias">>>>

RECURSIVE Masked(_, _)
Masked(names, mask) ==
    IF names = <<>> THEN <<>>
    ELSE (IF Head(mask) THEN <<Head(names)>> ELSE <<>>) \o Masked(Tail(names), Tail(mask))

NamedParameters ==
    {Masked(ParameterNames, mask) : mask \in [1..Len(ParameterNames) -> BOOLEAN]} \ {<<>>}

\* the default of the constructor (line 89), with and without momentum, and
\* with the weight decay as it is, zero, or left out
OptimizerParams ==
    LET lr == [lr |-> Rat(1, 100)]
        momentum == [lr |-> Rat(1, 100), momentum |-> Rat(9, 10)]
        Decay(params, value) ==
            [k \in (DOMAIN params) \cup {"weight_decay"} |->
                IF k = "weight_decay" THEN value ELSE params[k]]
    IN  {lr, momentum}
          \cup {Decay(params, value) : params \in {lr, momentum},
                                       value \in {Rat(0, 1), Rat(5, 10000)}}

InitOptimizers ==
    /\ NoNetwork /\ NoForward /\ NoStep /\ NoTargets /\ NoMatching /\ NoDarknet
    /\ confidence_threshold \in ConfidenceThresholds
    /\ nms_threshold \in NmsThresholds
    /\ detections_per_image = 1
    /\ preds = <<>>
    /\ selected = <<>>
    /\ nms_keep = <<>>
    /\ result = <<>>
    /\ again = <<>>
    /\ batch = NoBatch
    /\ outcome = "none"
    /\ pc = "start"
    /\ optimizer_params \in {Some(params) : params \in OptimizerParams}
    /\ named_parameters \in NamedParameters
    /\ configured = None

\* YOLO.configure_optimizers()
configure_optimizers ==
    /\ pc = "start"
    /\ configured' = Some(ConfigureOptimizers(optimizer_params[1], named_parameters))
    /\ pc' = "optimizers configured"
    /\ UNCHANGED <<cfg_vars, det_vars, val_vars, net_vars, fwd_vars, step_vars, tgt_vars,
                   match_vars, dark_vars, optimizer_params, named_parameters>>

NextOptimizers == configure_optimizers

SpecOptimizers == InitOptimizers /\ [][NextOptimizers]_vars

\* the name is that of the weight of a module called conv inside a module
IsConvWeight(name) ==
    /\ Len(name) >= 2
    /\ name[Len(name)] = ".weight"
    /\ name[Len(name) - 1] = ".conv"

\* how often the parameter occurs in the groups of the optimizer
Occurrences(groups, name) ==
    Cardinality({place \in (1..Len(groups)) \X (1..Len(ParameterNames)) :
                    /\ place[2] <= Len(groups[place[1]].params)
                    /\ groups[place[1]].params[place[2]] = name})

\* C21: when optimizer_params holds a nonzero weight_decay the optimizer is
\* given two groups and every parameter is in exactly one of them: in a
\* group with the configured weight decay when its name ends with
\* ".conv.weight", otherwise in a group with weight decay 0.0; when
\* weight_decay is absent or zero the optimizer is given all the parameters,
\* ungrouped, and optimizer_params as they are.
C21_WeightDecayOnlyOnConvWeights ==
    pc = "optimizers configured" =>
        LET params == optimizer_params[1]
            optimizer == configured[1].optimizers[1]
        IN  IF "weight_decay" \in DOMAIN params /\ ~REq(params["weight_decay"], Rat(0, 1))
            THEN /\ optimizer.grouped
                 /\ Len(optimizer.params) = 2
                 /\ \A n \in 1..Len(named_parameters) :
                       LET name == named_parameters[n]
                       IN  /\ Occurrences(optimizer.params, name) = 1
                           /\ \A g \in 1..2 :
                                 name \in Range(optimizer.params[g].params) =>
                                    optimizer.params[g].weight_decay =
                                       IF IsConvWeight(name) THEN params["weight_decay"]
                                       ELSE Rat(0, 1)
                 /\ \A g \in 1..2 :
                       Range(optimizer.params[g].params) \subseteq Range(named_parameters)
            ELSE /\ ~optimizer.grouped
                 /\ optimizer.params = named_parameters
                 /\ optimizer.defaults = params

\* a nonzero weight decay with a convolution weight, a normalization weight
\* and the weight of an output layer among the parameters
C21_Witness ==
    /\ pc = "optimizers configured"
    /\ HasWeightDecay(optimizer_params[1])
    /\ \E a, b, c \in 1..Len(named_parameters) :
          /\ IsConvWeight(named_parameters[a])
          /\ named_parameters[b][Len(named_parameters[b]) - 1] = ".norm"
          /\ named_parameters[c][Len(named_parameters[c]) - 1] = ".out3"
          /\ named_parameters[b][Len(named_parameters[b])] = ".weight"
          /\ named_parameters[c][Len(named_parameters[c])] = ".weight"
    /\ Len(configured[1].optimizers[1].params[2].params) >= 1

---------------------------------------------------------------------------
(* A detection layer given the targets of one image: the overlap of the    *)
(* targets' and the priors' dimensions, the default (maxiou) matcher and   *)
(* the assignment the losses are computed from.  A loss is kept as the set *)
(* of the terms that are summed into it, so a loss without a term is zero. *)
(* A predictor is <<cell, anchor>>, with the anchor an index into the      *)
(* priors of the layer.                                                    *)

\* a box of the given width and height centered at the origin, in corner
\* format and in half units
Centered(wh) == <<0 - wh[1], 0 - wh[2], wh[1], wh[2]>>

\* the mutant of AlignedIoU: the intersection is counted twice in the union
AlignedIoU_union_is_sum(wh1, wh2) ==
    [i \in 1..Len(wh1) |->
        [j \in 1..Len(wh2) |->
            LET a == Centered(wh1[i])
                b == Centered(wh2[j])
            IN  Rat(Intersection(a, b), BoxArea(a) + BoxArea(b))]]

\* aligned_iou(dims1, dims2): intersection over union of every pair
AlignedIoU(wh1, wh2) ==
    [i \in 1..Len(wh1) |->
        [j \in 1..Len(wh2) |->
            LET a == Centered(wh1[i])
                b == Centered(wh2[j])
                inter == Intersection(a, b)
            IN  Rat(inter, BoxArea(a) + BoxArea(b) - inter)]]

\* the mutant of ArgMax: an equal value replaces the one found before
RECURSIVE ArgMax_last_wins(_, _, _)
ArgMax_last_wins(row, k, best) ==
    IF k > Len(row) THEN best
    ELSE ArgMax_last_wins(row, k + 1, IF RGe(row[k], row[best]) THEN k ELSE best)

\* the index of the maximum of a row, looking from position k on with
\* `best` the index found so far
RECURSIVE ArgMax(_, _, _)
ArgMax(row, k, best) ==
    IF k > Len(row) THEN best
    ELSE ArgMax(row, k + 1, IF RGt(row[k], row[best]) THEN k ELSE best)

\* maxiou matching: for every target the prior of the layer with the
\* highest aligned_iou
MaxIoUMatching(iou_matrix) ==
    [t \in 1..Len(iou_matrix) |-> {ArgMax(iou_matrix[t], 2, 1)}]

\* a predictor is not taken into the confidence loss when its prior's IoU
\* with some target is above this (ignore_bg_threshold)
IgnoreBgThreshold == Rat(7, 10)

\* the cells of the feature map of the layer
Cells == {1, 2}

LayerPredictors(priors) == Cells \X (1..Len(priors))

\* the predictors responsible for target t
Responsible(tgts, assignment, t) == {<<tgts[t].cell, a>> : a \in assignment[t]}

\* the mutant of ConfidenceTarget: without a target box no predictor gets a
\* confidence target
ConfidenceTarget_none_without_boxes(tgts, iou_matrix, assignment, predictor) ==
    IF \E t \in 1..Len(tgts) : predictor \in Responsible(tgts, assignment, t) THEN "object"
    ELSE IF tgts = <<>> THEN "ignored"
    ELSE IF \E t \in 1..Len(tgts) : RGt(iou_matrix[t][predictor[2]], IgnoreBgThreshold)
    THEN "ignored"
    ELSE "background"

\* what the confidence of a predictor is compared with
ConfidenceTarget(tgts, iou_matrix, assignment, predictor) ==
    IF \E t \in 1..Len(tgts) : predictor \in Responsible(tgts, assignment, t) THEN "object"
    ELSE IF \E t \in 1..Len(tgts) : RGt(iou_matrix[t][predictor[2]], IgnoreBgThreshold)
    THEN "ignored"
    ELSE "background"

\* the loss aggregator: the terms of the three losses, and the hit count
LayerLosses(priors, tgts, iou_matrix, assignment) ==
    LET pairs == {pair \in LayerPredictors(priors) \X (1..Len(tgts)) :
                    pair[1] \in Responsible(tgts, assignment, pair[2])}
    IN  [overlap |-> pairs,
         confidence |->
            {<<predictor, ConfidenceTarget(tgts, iou_matrix, assignment, predictor)>> :
                predictor \in {q \in LayerPredictors(priors) :
                    ConfidenceTarget(tgts, iou_matrix, assignment, q) # "ignored"}},
         class |-> pairs,
         hits |-> Cardinality({t \in 1..Len(tgts) : assignment[t] # {}})]

\* the dimensions the model draws priors and targets from: those of the
\* test of aligned_iou
Dims == <<<<1, 1>>, <<10, 1>>, <<100, 10>>, <<1, 10>>, <<2, 20>>>>

DimLists == {Masked(Dims, mask) : mask \in [1..Len(Dims) -> BOOLEAN]}

\* a target of each size, in the first or the second cell
LayerTargets ==
    {[t \in 1..Len(wh) |-> [wh |-> wh[t], cell |-> 1 + (wh[t][1] % 2)]] : wh \in DimLists}

InitMatching ==
    /\ NoNetwork /\ NoForward /\ NoStep /\ NoTargets /\ NoOptimizer /\ NoDarknet
    /\ confidence_threshold \in ConfidenceThresholds
    /\ nms_threshold \in NmsThresholds
    /\ detections_per_image = 1
    /\ preds = <<>>
    /\ selected = <<>>
    /\ nms_keep = <<>>
    /\ result = <<>>
    /\ again = <<>>
    /\ batch = NoBatch
    /\ outcome = "none"
    /\ pc = "start"
    /\ layer_priors \in DimLists \ {<<>>}
    /\ layer_targets \in LayerTargets
    /\ ious = None
    /\ matched = None
    /\ layer_out = None

not_match_vars ==
    <<cfg_vars, det_vars, val_vars, net_vars, fwd_vars, step_vars, tgt_vars, opt_vars, dark_vars>>

\* the dimensions of the targets
TargetDims == [t \in 1..Len(layer_targets) |-> layer_targets[t].wh]

\* aligned_iou(target dimensions, prior dimensions)
aligned_iou ==
    /\ pc = "start"
    /\ ious' = Some(AlignedIoU(TargetDims, layer_priors))
    /\ pc' = "ious"
    /\ UNCHANGED <<layer_priors, layer_targets, matched, layer_out, not_match_vars>>

\* the matcher
match_targets ==
    /\ pc = "ious"
    /\ matched' = Some(MaxIoUMatching(ious[1]))
    /\ pc' = "matched"
    /\ UNCHANGED <<layer_priors, layer_targets, ious, layer_out, not_match_vars>>

\* the loss aggregator
compute_losses ==
    /\ pc = "matched"
    /\ layer_out' = Some(LayerLosses(layer_priors, layer_targets, ious[1], matched[1]))
    /\ pc' = "losses"
    /\ UNCHANGED <<layer_priors, layer_targets, ious, matched, not_match_vars>>

NextMatching == aligned_iou \/ match_targets \/ compute_losses

SpecMatching == InitMatching /\ [][NextMatching]_vars

\* the arguments of the aligned_iou call
dims1 == TargetDims
dims2 == layer_priors

\* min(w_i, w_j) * min(h_i, h_j) / (w_i*h_i + w_j*h_j - min(w_i, w_j) * min(h_i, h_j))
OriginIoU(a, b) ==
    LET inter == Min(a[1], b[1]) * Min(a[2], b[2])
    IN  Rat(inter, a[1] * a[2] + b[1] * b[2] - inter)

\* the example of test_aligned_iou
ExampleDims1 == <<<<1, 1>>, <<10, 1>>, <<100, 10>>>>
ExampleDims2 == <<<<1, 10>>, <<2, 20>>>>
ExampleIoUs ==
    <<<<Rat(1, 10), Rat(1, 40)>>, <<Rat(1, 19), Rat(2, 48)>>, <<Rat(10, 1000), Rat(20, 1020)>>>>

\* C22: aligned_iou(dims1, dims2) has one row per entry of dims1 and one
\* column per entry of dims2; entry (i, j) is min(w)*min(h) over the sum of
\* the two areas less min(w)*min(h); on the dimensions of test_aligned_iou
\* it is the matrix the test expects; and it is the transpose of
\* aligned_iou(dims2, dims1).
C22_AlignedIoUOfCenteredBoxes ==
    pc \in {"ious", "matched", "losses"} =>
        /\ Len(ious[1]) = Len(dims1)
        /\ \A i \in 1..Len(dims1) :
              /\ Len(ious[1][i]) = Len(dims2)
              /\ \A j \in 1..Len(dims2) :
                    /\ REq(ious[1][i][j], OriginIoU(dims1[i], dims2[j]))
                    /\ REq(ious[1][i][j], AlignedIoU(dims2, dims1)[j][i])
                    /\ (dims1 = ExampleDims1 /\ dims2 = ExampleDims2) =>
                          REq(ious[1][i][j], ExampleIoUs[i][j])

\* aligned_iou was applied to the dimensions of the test
C22_Witness ==
    /\ pc = "ious"
    /\ dims1 = ExampleDims1
    /\ dims2 = ExampleDims2
    /\ Len(ious[1]) = 3
    /\ Len(ious[1][3]) = 2

\* C23: the maxiou matcher selects exactly one prior for every target, one
\* whose aligned_iou with the target's dimensions no other prior exceeds,
\* and every prior before it has a lower aligned_iou: of several priors
\* with the maximum, the first is selected.
C23_MaxIoUSelectsFirstMaximum ==
    pc \in {"matched", "losses"} =>
        /\ Len(matched[1]) = Len(layer_targets)
        /\ \A t \in 1..Len(layer_targets) :
              /\ Cardinality(matched[1][t]) = 1
              /\ \A a \in matched[1][t] :
                    /\ a \in 1..Len(layer_priors)
                    /\ \A j \in 1..Len(layer_priors) : RGe(ious[1][t][a], ious[1][t][j])
                    /\ \A j \in 1..(a - 1) : RGt(ious[1][t][a], ious[1][t][j])

\* a target for which two priors have the same, highest, overlap, and a
\* target whose best prior is not the first
C23_Witness ==
    /\ pc = "matched"
    /\ \E t \in 1..Len(layer_targets) : \E a, b \in 1..Len(layer_priors) :
          /\ a < b
          /\ REq(ious[1][t][a], ious[1][t][b])
          /\ \A j \in 1..Len(layer_priors) : RGe(ious[1][t][a], ious[1][t][j])
          /\ matched[1][t] = {a}
    /\ \E t \in 1..Len(layer_targets) : \E a \in matched[1][t] : a > 1

\* C24: when the targets hold no box the assignment is empty, the overlap
\* loss and the class loss have no term, the hit count is 0, and the
\* confidence loss has one term for every predictor of the layer, each
\* against background: no predictor is ignored.  Every step of the layer
\* can be taken, up to the losses.
C24_NoBoxesAllBackground ==
    layer_targets = <<>> =>
        /\ pc \in {"start", "ious", "matched"} => ENABLED NextMatching
        /\ pc = "losses" =>
              /\ matched[1] = <<>>
              /\ layer_out[1].overlap = {}
              /\ layer_out[1].class = {}
              /\ layer_out[1].hits = 0
              /\ layer_out[1].confidence =
                    {<<predictor, "background">> :
                        predictor \in Cells \X (1..Len(layer_priors))}

\* a layer with several priors went through matching and loss without a
\* target box
C24_Witness ==
    /\ pc = "losses"
    /\ layer_targets = <<>>
    /\ Len(layer_priors) >= 2
    /\ Cardinality(layer_out[1].confidence) = 2 * Len(layer_priors)

---------------------------------------------------------------------------
(* DarknetYOLO.__init__ (yolo_module.py lines 412-440): the arguments are  *)
(* handed to DarknetNetwork, whose detection layers are created with the   *)
(* matching algorithm they ask for.                                        *)

\* the mutant of DarknetNetworkArguments: match_iou_threshold is not passed
\* on
DarknetNetworkArguments_without_iou_threshold(args) ==
    [match_sim_ota |-> args.match_sim_ota,
     match_size_ratio |-> args.match_size_ratio,
     match_iou_threshold |-> None,
     ignore_bg_threshold |-> args.ignore_bg_threshold,
     overlap_func |-> args.overlap_func]

\* lines 427-439: the keyword arguments of the DarknetNetwork call
DarknetNetworkArguments(args) ==
    [match_sim_ota |-> args.match_sim_ota,
     match_size_ratio |-> args.match_size_ratio,
     match_iou_threshold |-> args.match_iou_threshold,
     ignore_bg_threshold |-> args.ignore_bg_threshold,
     overlap_func |-> args.overlap_func]

\* the matching algorithms the keyword arguments ask for
SpecifiedMatching(kwargs) ==
    (IF kwargs.match_sim_ota THEN {"simota"} ELSE {})
        \cup (IF kwargs.match_size_ratio # None THEN {"size"} ELSE {})
        \cup (IF kwargs.match_iou_threshold # None THEN {"iou"} ELSE {})

\* DarknetNetwork(...): the algorithms exclude one another, and without one
\* the layers match a target to the prior with the highest IoU
DarknetNetwork(kwargs) ==
    LET specified == SpecifiedMatching(kwargs)
    IN  IF Cardinality(specified) > 1
        THEN Raise("ValueError", "matching algorithm")
        ELSE Return(IF specified = {} THEN "maxiou" ELSE CHOOSE algorithm \in specified : TRUE)

\* the arguments the model draws
DarknetArguments ==
    [match_sim_ota : BOOLEAN,
     match_size_ratio : {None, Some(Rat(4, 1))},
     match_iou_threshold : {None, Some(Rat(1, 2))},
     ignore_bg_threshold : {None, Some(Rat(7, 10))},
     overlap_func : {None, Some("iou"), Some("giou"), Some("diou"), Some("ciou")}]

InitDarknet ==
    /\ NoNetwork /\ NoForward /\ NoStep /\ NoTargets /\ NoOptimizer /\ NoMatching
    /\ confidence_threshold \in ConfidenceThresholds
    /\ nms_threshold \in NmsThresholds
    /\ detections_per_image = 1
    /\ preds = <<>>
    /\ selected = <<>>
    /\ nms_keep = <<>>
    /\ result = <<>>
    /\ again = <<>>
    /\ batch = NoBatch
    /\ outcome = "none"
    /\ pc = "start"
    /\ darknet_args \in {Some(args) : args \in DarknetArguments}
    /\ matching = "none"

\* DarknetYOLO(network_config, ...)
darknet_yolo_init ==
    /\ pc = "start"
    /\ LET network == DarknetNetwork(DarknetNetworkArguments(darknet_args[1]))
       IN  IF network.raised # "none"
           THEN /\ error' = network.raised
                /\ pc' = "raised"
                /\ UNCHANGED <<variant, matching>>
           ELSE /\ variant' = "DarknetNetwork"
                /\ matching' = network.returned
                /\ pc' = "constructed"
                /\ UNCHANGED error
    /\ UNCHANGED <<num_classes, prior_shapes, anchors_per_cell, out_channels, detect,
                   darknet_args,
                   cfg_vars, det_vars, val_vars, fwd_vars, step_vars, tgt_vars,
                   opt_vars, match_vars>>

NextDarknet == darknet_yolo_init

SpecDarknet == InitDarknet /\ [][NextDarknet]_vars

\* how many of the three matching arguments are set
MatchingArgumentsSet ==
    LET args == darknet_args[1]
    IN  (IF args.match_sim_ota THEN 1 ELSE 0)
          + (IF args.match_size_ratio = None THEN 0 ELSE 1)
          + (IF args.match_iou_threshold = None THEN 0 ELSE 1)

\* C25: constructing DarknetYOLO with more than one of match_sim_ota,
\* match_size_ratio and match_iou_threshold set raises an error and
\* constructs nothing; with none of them set the construction succeeds
\* with maxiou matching, and with one of them set it succeeds too.
C25_AtMostOneMatchingAlgorithm ==
    pc # "start" =>
        /\ MatchingArgumentsSet > 1 =>
              pc = "raised" /\ error = "ValueError" /\ matching = "none"
        /\ MatchingArgumentsSet = 0 =>
              pc = "constructed" /\ error = "none" /\ matching = "maxiou"
        /\ MatchingArgumentsSet = 1 =>
              pc = "constructed" /\ error = "none" /\ matching \in {"simota", "size", "iou"}

\* the constructor refused match_sim_ota together with match_iou_threshold
C25_Witness ==
    /\ pc = "raised"
    /\ darknet_args[1].match_sim_ota
    /\ darknet_args[1].match_iou_threshold # None
    /\ darknet_args[1].match_size_ratio = None
    /\ error = "ValueError"

---------------------------------------------------------------------------
(* Claims about the lists the network's forward returns, over sequences of *)
(* forward calls, and about the hit rates YOLO.forward logs.               *)

\* C27: after every forward call of a sequence of calls, the detections
\* list of the network holds one entry per detection layer; the losses and
\* hits lists are empty when the call had no targets, and otherwise hold one
\* entry per layer, which is what that layer stored in this call.
C27_ListsHoldThisCallsEntries ==
    pc = "forward" =>
        LET order == LayerOrder(variant)
        IN  /\ Len(network_out.detections) = 3
            /\ \A k \in 1..3 :
                  network_out.detections[k] = RawDetections(order[k], input_images)
            /\ ~WithTargets => network_out.losses = <<>> /\ network_out.hits = <<>>
            /\ WithTargets =>
                  /\ Len(network_out.losses) = 3
                  /\ Len(network_out.hits) = 3
                  /\ \A k \in 1..3 :
                        /\ network_out.losses[k] # None
                        /\ network_out.losses[k] = attrs[order[k]].losses
                        /\ network_out.hits[k] = attrs[order[k]].hits

\* a call without targets after a call with targets: the layers still hold
\* the losses and hits of the earlier call, and none is returned
C27_Witness ==
    /\ pc = "forward"
    /\ network_calls = 2
    /\ ~WithTargets
    /\ \A layer \in Range(LayerNames) : attrs[layer].losses # None
    /\ \E layer \in Range(LayerNames) : attrs[layer].hits > 0
    /\ network_out.losses = <<>>
    /\ Len(network_out.detections) = 3

\* C28: in every variant position k of the detections, losses and hits
\* lists of the network belongs to the k-th of detect3, detect4, detect5,
\* and so does the hit rate logged with index k - 1.
C28_ListsFinestLayerFirst ==
    pc = "forward" =>
        \A k \in 1..3 :
            /\ network_out.detections[k] = RawDetections(LayerNames[k], input_images)
            /\ WithTargets =>
                  /\ network_out.losses[k] = attrs[LayerNames[k]].losses
                  /\ network_out.hits[k] = attrs[LayerNames[k]].hits
                  /\ logged[k][2] = k - 1
                  /\ REq(logged[k][3],
                         HitRate(attrs[LayerNames[k]].hits, SeqSum(network_out.hits)))

\* the sum of two rationals
RAdd(a, b) == Rat(a.num * b.den + b.num * a.den, a.den * b.den)

\* the hit rates logged by the last forward call
LoggedRate(k) == logged[k][3]
LoggedRateSum == RAdd(RAdd(LoggedRate(1), LoggedRate(2)), LoggedRate(3))
InUnitInterval(rate) == rate.den > 0 /\ 0 <= rate.num /\ rate.num <= rate.den

\* C29 as stated: every logged hit rate lies in [0, 1], the hit rates of one
\* forward pass sum to 1, and a layer without hits has hit rate 0 when
\* another layer has hits.
C29_HitRatesSumToOne ==
    (pc = "forward" /\ WithTargets) =>
        /\ \A k \in 1..3 : InUnitInterval(LoggedRate(k))
        /\ REq(LoggedRateSum, Rat(1, 1))
        /\ \A k \in 1..3 :
              (network_out.hits[k] = 0 /\ SeqSum(network_out.hits) > 0)
                  => REq(LoggedRate(k), Rat(0, 1))

\* C29 as amended: every logged hit rate lies in [0, 1]; when some layer
\* has hits the hit rates of the forward pass sum to 1 and a layer without
\* hits has hit rate 0; when no layer has hits every layer's hit rate is 1.
C29_HitRatesSumToOneIfAnyHit ==
    (pc = "forward" /\ WithTargets) =>
        /\ \A k \in 1..3 : InUnitInterval(LoggedRate(k))
        /\ SeqSum(network_out.hits) > 0 =>
              /\ REq(LoggedRateSum, Rat(1, 1))
              /\ \A k \in 1..3 :
                    network_out.hits[k] = 0 => REq(LoggedRate(k), Rat(0, 1))
        /\ SeqSum(network_out.hits) = 0 =>
              \A k \in 1..3 : REq(LoggedRate(k), Rat(1, 1))

\* a forward pass in which one layer had no hit, one had one and one two
C29_Witness ==
    /\ pc = "forward"
    /\ WithTargets
    /\ Range(network_out.hits) = {0, 1, 2}
    /\ \E k \in 1..3 : network_out.hits[k] = 0 /\ REq(LoggedRate(k), Rat(0, 1))
    /\ REq(LoggedRateSum, Rat(1, 1))

---------------------------------------------------------------------------
(* Claims about the mAP accumulators over sequences of steps and epoch     *)
(* ends.                                                                   *)

\* C30: in every sequence of steps and epoch ends, a validation step that
\* reaches its last line adds its batch to the validation accumulator and
\* nothing else changes that accumulator but validation_epoch_end, which
\* logs the scores computed from the batches in it, all those added since
\* the previous validation_epoch_end, and empties it; the same holds for
\* test_step, test_epoch_end and the test accumulator; a validation step or
\* epoch end leaves the test accumulator as it is, a test step or epoch end
\* the validation accumulator, and a training step both.
C30_MapFromBatchesSinceEpochEnd ==
    [][/\ kind' = "validation_epoch_end" =>
             /\ logged' = <<<<"val", "map", val_map>>>>
             /\ val_map' = <<>>
             /\ test_map' = test_map
       /\ kind' = "test_epoch_end" =>
             /\ logged' = <<<<"test", "map", test_map>>>>
             /\ test_map' = <<>>
             /\ val_map' = val_map
       /\ kind' = "val" =>
             /\ test_map' = test_map
             /\ val_map' = IF stage = "logged" THEN Append(val_map, batch_idx) ELSE val_map
       /\ kind' = "test" =>
             /\ val_map' = val_map
             /\ test_map' = IF stage = "logged" THEN Append(test_map, batch_idx)
                            ELSE test_map
       /\ kind' = "train" => val_map' = val_map /\ test_map' = test_map
      ]_vars

\* validation_epoch_end has logged the scores of the second batch alone,
\* after a test step with the first batch, which the test accumulator still
\* holds
C30_Witness ==
    /\ kind = "validation_epoch_end"
    /\ stage = "idle"
    /\ logged = <<<<"val", "map", <<2>>>>>>
    /\ val_map = <<>>
    /\ test_map = <<1>>

============================================================================
